---- MODULE Spec2Model ----
(***************************************************************************)
(* Paged key/value cache of levanter: the single-owner PageTable, the      *)
(* PageBatchInfo it returns, the KvPageCache written through it and the    *)
(* reference ragged paged attention kernel                                 *)
(* (src/src/levanter/layers/attention.py, lines 1691-2156).                *)
(*                                                                         *)
(* Arrays are functions over 0..n-1, as in the source.  Array indexing     *)
(* follows jax.numpy: a negative index counts from the end, a read out of  *)
(* bounds is clamped, a write out of bounds is dropped.                    *)
(***************************************************************************)
EXTENDS Integers, Sequences, FiniteSets, TLC

\* The "free page" / "unused slot" / "padding" sentinel of the source.
INVALID == -1

\* Bounds of the model.
MaxSeqs == 2
MaxPages == 2
MaxPagesPerSeq == 2
MaxPageSize == 2
MaxTokens == 2
MaxSeqLen == 3
MaxKvSize == 3
MaxKvSlots == 4
MaxAttnPagesPerSeq == 3
MaxQLen == 5
MaxPad == 1
MaxScenPageSize == 4
MaxScenTokens == 5
MaxScenPagesPerSeq == 3
MaxScenLen == 8
MaxRcTokens == 3
MaxRcPages == 3
MaxPromptLen == 6
MaxNewTokens == 5
MaxBatch == 2
MaxLen == 2
MaxKvHeads == 2
MaxAppendTokens == 2
MaxAppendCalls == 3

VARIABLES
    page_size,      \* PageTable.page_size (static field)
    page_indices,   \* PageTable.page_indices : i32[Seq, PagePerSeq]
    page_owners,    \* PageTable.page_owners  : i32[Page]
    page_ref_counts, \* inference PageTable.page_ref_counts : i32[Page]
    seq_lens,       \* PageTable.seq_lens     : i32[Seq]
    kv_pages,       \* KvPageCache.kv_pages   : [Page, Slot] of (key half, value half)
    call,           \* the name of the last call made
    attn_batch,     \* the PageBatchInfo handed to the attention kernel
    attn_out,       \* the output of the attention kernel, one row for each query token
    sample,         \* the locals of sample_lm.main (NoSample in the other specifications)
    kv_cache        \* a KvCache: keys, values, lengths (NoKvCache in the other specifications)

vars == <<page_size, page_indices, page_owners, page_ref_counts, seq_lens, kv_pages,
          call, attn_batch, attn_out, sample, kv_cache>>

\* sample_lm.main is not running
NoSample == <<>>

\* no KvCache is in use
NoKvCache == <<>>

----------------------------------------------------------------------------
\* Array helpers (jax.numpy indexing)

Size(a) == Cardinality(DOMAIN a)

Full(n, v) == [i \in 0..(n - 1) |-> v]

Min2(a, b) == IF a < b THEN a ELSE b

Max2(a, b) == IF a > b THEN a ELSE b

\* A negative index counts from the end of the axis.
NormIndex(i, n) == IF i < 0 THEN i + n ELSE i

\* a[i] as jax reads it: out of bounds indices are clamped.
GetClip(a, i) == a[Max2(0, Min2(NormIndex(i, Size(a)), Size(a) - 1))]

\* a.at[i].set(v) as jax writes it: an out of bounds write is dropped.
SetDrop(a, i, v) ==
    LET j == NormIndex(i, Size(a))
    IN  IF j >= 0 /\ j < Size(a) THEN [a EXCEPT ![j] = v] ELSE a

\* a.at[i].add(v, mode="drop")
AddDrop(a, i, v) ==
    LET j == NormIndex(i, Size(a))
    IN  IF j >= 0 /\ j < Size(a) THEN [a EXCEPT ![j] = @ + v] ELSE a

\* argmin taking the last index that holds the minimum
ArgMin_Last(a) ==
    CHOOSE i \in DOMAIN a :
        /\ \A j \in DOMAIN a : a[i] <= a[j]
        /\ \A j \in DOMAIN a : j > i => a[j] > a[i]

\* argmin: the first index holding the minimum.
ArgMin(a) ==
    CHOOSE i \in DOMAIN a :
        /\ \A j \in DOMAIN a : a[i] <= a[j]
        /\ \A j \in DOMAIN a : j < i => a[j] > a[i]

RECURSIVE SumUpTo(_, _)
SumUpTo(a, n) == IF n <= 0 THEN 0 ELSE a[n - 1] + SumUpTo(a, n - 1)

----------------------------------------------------------------------------
\* PageTable

Table == [page_indices |-> page_indices, page_owners |-> page_owners, seq_lens |-> seq_lens]

max_seqs(t) == Size(t.page_indices)

pages_per_seq(t) == Size(t.page_indices[0])

max_pages(t) == Size(t.page_owners)

max_len_per_seq(t, ps) == ps * pages_per_seq(t)

\* PageTable.init
init(mp, ms, mpps) ==
    [page_indices |-> Full(ms, Full(mpps, INVALID)),
     page_owners  |-> Full(mp, INVALID),
     seq_lens     |-> Full(ms, INVALID)]

\* assign_seq_id_to_seq taking the last slot that holds the minimum
assign_seq_id_to_seq_LastMin(t) ==
    LET seq_id == CHOOSE i \in DOMAIN t.seq_lens :
                      /\ \A j \in DOMAIN t.seq_lens : t.seq_lens[i] <= t.seq_lens[j]
                      /\ \A j \in DOMAIN t.seq_lens : j > i => t.seq_lens[j] > t.seq_lens[i]
    IN  [table  |-> [t EXCEPT !.seq_lens[seq_id] = 0],
         seq_id |-> seq_id]

\* PageTable.assign_seq_id_to_seq: (new table, seq_id)
assign_seq_id_to_seq(t) ==
    LET seq_id == ArgMin(t.seq_lens)
    IN  [table  |-> [t EXCEPT !.seq_lens[seq_id] = 0],
         seq_id |-> seq_id]

\* (lens + page_size - 1) // page_size, floor division as in jax.numpy
PagesNeeded(len, ps) == (len + ps - 1) \div ps

\* hax.where(updated_seqs < 0, max_seqs, updated_seqs)
padded_updated_seqs(t, updated_seqs) ==
    [i \in DOMAIN updated_seqs |->
        IF updated_seqs[i] < 0 THEN max_seqs(t) ELSE updated_seqs[i]]

RECURSIVE ScatterAdd(_, _, _, _)
\* a.at[idx].add(vals, mode="drop"), entries 0..n-1 of idx; repeated indices accumulate
ScatterAdd(a, idx, vals, n) ==
    IF n <= 0 THEN a
    ELSE LET i == idx[n - 1]
             b == ScatterAdd(a, idx, vals, n - 1)
         IN  IF i >= 0 /\ i < Size(a) THEN [b EXCEPT ![i] = @ + vals[n - 1]] ELSE b

\* new_lens without the inner where: an unused slot keeps the sum even when it is 0
new_lens_ZeroActivates(t, updated_seqs, new_counts) ==
    ScatterAdd([s \in DOMAIN t.seq_lens |-> IF t.seq_lens[s] < 0 THEN 0 ELSE t.seq_lens[s]],
               padded_updated_seqs(t, updated_seqs), new_counts, Size(updated_seqs))

\* new_lens of allocate_for_seqs
new_lens(t, updated_seqs, new_counts) ==
    LET current_lens == [s \in DOMAIN t.seq_lens |->
                            IF t.seq_lens[s] < 0 THEN 0 ELSE t.seq_lens[s]]
        new_lens_tmp == ScatterAdd(current_lens, padded_updated_seqs(t, updated_seqs),
                                   new_counts, Size(updated_seqs))
    IN  [s \in DOMAIN t.seq_lens |->
            IF t.seq_lens[s] < 0
            THEN (IF new_lens_tmp[s] > 0 THEN new_lens_tmp[s] ELSE INVALID)
            ELSE new_lens_tmp[s]]

\* body of the page loop: take argmin(page_owners) for (seq_id, page_idx).
\* st.requests is the trace of the loop (which request got which page, and
\* whether that page was free when it was chosen); the code keeps no such record.
alloc_body(seq_id, page_idx, st) ==
    LET free_page_idx == ArgMin(st.page_owners)
    IN  [page_owners  |-> [st.page_owners EXCEPT ![free_page_idx] = seq_id],
         page_indices |-> [st.page_indices EXCEPT
                              ![seq_id] = SetDrop(@, page_idx, free_page_idx)],
         requests     |-> Append(st.requests,
                                 [seq |-> seq_id, page_idx |-> page_idx,
                                  page |-> free_page_idx,
                                  was_free |-> st.page_owners[free_page_idx] = INVALID])]

RECURSIVE alloc_pages_loop(_, _, _, _)
\* jax.lax.fori_loop(old_needed, num_needed, body, ...)
alloc_pages_loop(seq_id, lo, hi, st) ==
    IF lo >= hi THEN st
    ELSE alloc_pages_loop(seq_id, lo + 1, hi, alloc_body(seq_id, lo, st))

\* _alloc_pages_for_seq
alloc_pages_for_seq(t, ps, nl, seq_id, st) ==
    alloc_pages_loop(seq_id, PagesNeeded(t.seq_lens[seq_id], ps),
                     PagesNeeded(nl[seq_id], ps), st)

RECURSIVE alloc_seqs_loop(_, _, _, _, _)
\* jax.lax.fori_loop(0, max_seqs, _alloc_pages_for_seq, ...)
alloc_seqs_loop(t, ps, nl, s, st) ==
    IF s >= max_seqs(t) THEN st
    ELSE alloc_seqs_loop(t, ps, nl, s + 1, alloc_pages_for_seq(t, ps, nl, s, st))

\* token_dest without the offset of the position inside its page
token_dest_PageStart(new_table, ps, seq_cursors, seq_id) ==
    LET cur      == GetClip(seq_cursors, seq_id)
        page     == GetClip(GetClip(new_table.page_indices, seq_id), cur \div ps)
    IN  IF page < 0 THEN INVALID ELSE page * ps

\* the destination of one token in _slice_batch_info.token_body.assign
token_dest(new_table, ps, seq_cursors, seq_id) ==
    LET cur      == GetClip(seq_cursors, seq_id)
        page_idx == cur \div ps
        page_offset == cur % ps
        page     == GetClip(GetClip(new_table.page_indices, seq_id), page_idx)
    IN  IF page < 0 THEN INVALID ELSE page * ps + page_offset

RECURSIVE token_loop_NoAdvance(_, _, _, _, _)
\* token_loop without the advance of the sequence's cursor
token_loop_NoAdvance(new_table, ps, tokens, i, carry) ==
    IF i >= Size(tokens) THEN carry
    ELSE LET seq_id == tokens[i]
             next == IF seq_id >= 0
                     THEN [carry EXCEPT !.token_dests[i] =
                               token_dest(new_table, ps, carry.seq_cursors, seq_id)]
                     ELSE carry
         IN  token_loop_NoAdvance(new_table, ps, tokens, i + 1, next)

RECURSIVE token_loop(_, _, _, _, _)
\* jax.lax.fori_loop(0, len(tokens), token_body, (token_dests, seq_cursors))
token_loop(new_table, ps, tokens, i, carry) ==
    IF i >= Size(tokens) THEN carry
    ELSE LET seq_id == tokens[i]
             next == IF seq_id >= 0
                     THEN [token_dests |-> [carry.token_dests EXCEPT
                                ![i] = token_dest(new_table, ps, carry.seq_cursors, seq_id)],
                           seq_cursors |-> AddDrop(carry.seq_cursors, seq_id, 1)]
                     ELSE carry
         IN  token_loop(new_table, ps, tokens, i + 1, next)

\* PageTable._slice_batch_info: the PageBatchInfo of one call
slice_batch_info(ps, updated_seqs, old_seq_lens, new_table, new_token_counts, tokens) ==
    LET mask == [i \in DOMAIN updated_seqs |-> updated_seqs[i] >= 0]
        safe_updated == [i \in DOMAIN updated_seqs |->
                            IF mask[i] THEN updated_seqs[i] ELSE 0]
        seq_cursors == [s \in DOMAIN old_seq_lens |->
                            IF old_seq_lens[s] < 0 THEN 0 ELSE old_seq_lens[s]]
        done == token_loop(new_table, ps, tokens, 0,
                           [token_dests |-> Full(Size(tokens), INVALID),
                            seq_cursors |-> seq_cursors])
    IN  [page_indices |-> [i \in DOMAIN updated_seqs |->
                            IF mask[i] THEN GetClip(new_table.page_indices, safe_updated[i])
                            ELSE Full(pages_per_seq(new_table), INVALID)],
         seq_lens |-> [i \in DOMAIN updated_seqs |->
                            IF mask[i] THEN GetClip(new_table.seq_lens, safe_updated[i])
                            ELSE INVALID],
         cu_q_lens |-> [i \in 0..Size(updated_seqs) |-> SumUpTo(new_token_counts, i)],
         num_seqs |-> Cardinality({i \in DOMAIN updated_seqs : mask[i]}),
         new_token_dests |-> done.token_dests]

\* PageTable.allocate_for_seqs: (new table, batch info), the trace of its page loop
\* and whether it raised
allocate_for_seqs(t, ps, updated_seqs, new_counts, tokens) ==
    LET nl == new_lens(t, updated_seqs, new_counts)
        st == alloc_seqs_loop(t, ps, nl, 0,
                              [page_indices |-> t.page_indices,
                               page_owners |-> t.page_owners,
                               requests |-> <<>>])
        new_table == [page_indices |-> st.page_indices,
                      page_owners |-> st.page_owners,
                      seq_lens |-> nl]
    IN  [table |-> new_table,
         batch_info |-> slice_batch_info(ps, updated_seqs, t.seq_lens, new_table,
                                         new_counts, tokens),
         requests |-> st.requests,
         \* the "No free pages" error_if is commented out: the call always returns
         raised |-> FALSE]

\* free_pages that lowers the length by one instead of resetting it
free_pages_KeepLen(t, seq_id) ==
    [page_owners  |-> [p \in DOMAIN t.page_owners |->
                          IF t.page_owners[p] = seq_id THEN INVALID ELSE t.page_owners[p]],
     page_indices |-> SetDrop(t.page_indices, seq_id, Full(pages_per_seq(t), INVALID)),
     seq_lens     |-> AddDrop(t.seq_lens, seq_id, -1)]

\* PageTable.free_pages
free_pages(t, seq_id) ==
    [page_owners  |-> [p \in DOMAIN t.page_owners |->
                          IF t.page_owners[p] = seq_id THEN INVALID ELSE t.page_owners[p]],
     page_indices |-> SetDrop(t.page_indices, seq_id, Full(pages_per_seq(t), INVALID)),
     seq_lens     |-> SetDrop(t.seq_lens, seq_id, INVALID)]

----------------------------------------------------------------------------
\* Ref-counted PageTable (inference/page_table.py): page_ref_counts replaces
\* page_owners

\* levanter.inference.utils.INVALID, the sentinel of this table.  The module is not
\* part of the sources; assign_seq_id_to_seq finds an unused slot with
\* argmax(seq_lens), so the sentinel is taken above every length, page and slot id.
INVALID_RC == 2000000

\* levanter.inference.utils.is_valid: not negative and not the sentinel
is_valid(x) == x # INVALID_RC /\ x >= 0

\* levanter.inference.utils.is_invalid
is_invalid(x) == ~is_valid(x)

RECURSIVE rc_dec_loop(_, _, _)
\* fori_loop(0, pages_per_seq, body, page_ref_counts): one reference less for
\* every valid page of the row
rc_dec_loop(seq_pages, i, ref_counts) ==
    IF i >= Size(seq_pages) THEN ref_counts
    ELSE rc_dec_loop(seq_pages, i + 1,
                     IF is_valid(seq_pages[i]) THEN AddDrop(ref_counts, seq_pages[i], -1)
                     ELSE ref_counts)

\* PageTable.free_pages of the ref-counted table
rc_free_pages(t, seq_id) ==
    IF seq_id < 0 \/ seq_id >= Size(t.page_indices) THEN t
    ELSE [page_ref_counts |-> [p \in DOMAIN t.page_ref_counts |->
                                  Max2(rc_dec_loop(t.page_indices[seq_id], 0,
                                                   t.page_ref_counts)[p], 0)],
          page_indices |-> SetDrop(t.page_indices, seq_id,
                                   Full(Size(t.page_indices[0]), INVALID_RC)),
          seq_lens |-> SetDrop(t.seq_lens, seq_id, INVALID_RC)]

----------------------------------------------------------------------------
\* KvPageCache and KvPageState

\* PageTable.num_pages, the number of pages KvPageCache.init gives the cache
num_pages(t) == pages_per_seq(t) * max_seqs(t)

\* A key or value vector is a symbol <<kind, sequence, row>>; the cache starts as zeros.
Zero == <<"zero", 0, 0>>

ZeroSlot == [k |-> Zero, v |-> Zero]

\* KvPageCache.init: hax.zeros over page x slot x (key half, value half)
KvPageCache_init(t, ps) == Full(num_pages(t), Full(ps, ZeroSlot))

\* scatter_one with the write of an INVALID destination clamped into the cache
\* instead of dropped
scatter_one_Clamped(kvp, dest, half, val) ==
    LET n_pages == Size(kvp)
        n_slots == Size(kvp[0])
        t_page  == IF dest >= 0 THEN Min2(dest \div n_slots, n_pages - 1) ELSE n_pages - 1
        t_slot  == IF dest >= 0 THEN dest % n_slots ELSE n_slots - 1
    IN  [kvp EXCEPT ![t_page][t_slot] =
            IF half = "k" THEN [@ EXCEPT !.k = val] ELSE [@ EXCEPT !.v = val]]

\* one token's row of kv_pages.at["page", t_pages, "slot", t_slots, half].set(new)
scatter_one(kvp, dest, half, val) ==
    LET n_pages == Size(kvp)
        n_slots == Size(kvp[0])
        t_page  == IF dest >= 0 THEN dest \div n_slots ELSE n_pages
        t_slot  == IF dest >= 0 THEN dest % n_slots ELSE n_slots
    IN  IF t_page < n_pages /\ t_slot < n_slots
        THEN [kvp EXCEPT ![t_page][t_slot] =
                 IF half = "k" THEN [@ EXCEPT !.k = val] ELSE [@ EXCEPT !.v = val]]
        ELSE kvp

RECURSIVE scatter(_, _, _, _, _, _)
\* the scatter of one half, its rows applied in the order ord (a scatter with
\* repeated destinations keeps one of the rows, any of them)
scatter(kvp, dests, half, vals, ord, n) ==
    IF n > Len(ord) THEN kvp
    ELSE scatter(scatter_one(kvp, dests[ord[n]], half, vals[ord[n]]),
                 dests, half, vals, ord, n + 1)

\* the orders in which the rows of a scatter to dests may be applied: the order
\* only matters when two rows have the same destination
Orders(dests) ==
    LET n == Size(dests)
    IN  IF \A i, j \in DOMAIN dests : dests[i] >= 0 /\ dests[i] = dests[j] => i = j
        THEN {[i \in 1..n |-> i - 1]}
        ELSE {o \in [1..n -> 0..(n - 1)] : \A i, j \in 1..n : o[i] = o[j] => i = j}

\* KvPageState.from_batch
from_batch(binfo, kvp) == [kv_pages |-> kvp, batch_info |-> binfo]

\* KvPageState.update_kv_cache: the state with the keys, then the values, scattered
\* into kv_pages
update_kv_cache(state, new_k, new_v, ord_k, ord_v) ==
    [state EXCEPT !.kv_pages =
        scatter(scatter(state.kv_pages, state.batch_info.new_token_dests, "k", new_k, ord_k, 1),
                state.batch_info.new_token_dests, "v", new_v, ord_v, 1)]

----------------------------------------------------------------------------
\* The serving loop: construction, then any sequence of calls

\* no attention call has been made
NoBatch == [num_seqs |-> 0]

\* PageTable.init(mp, ms, ps, mpps), then KvPageCache.init on that table
Construct(mp, ms, ps, mpps) ==
    /\ page_size = ps
    /\ page_indices = init(mp, ms, mpps).page_indices
    /\ page_owners = init(mp, ms, mpps).page_owners
    /\ page_ref_counts = <<>>
    /\ seq_lens = init(mp, ms, mpps).seq_lens
    /\ kv_pages = KvPageCache_init(init(mp, ms, mpps), ps)
    /\ call = "init"
    /\ attn_batch = NoBatch
    /\ attn_out = <<>>
    /\ sample = NoSample
    /\ kv_cache = NoKvCache

Init ==
    \E ps \in 1..MaxPageSize, mp \in 1..MaxPages, ms \in 1..MaxSeqs,
       mpps \in 1..MaxPagesPerSeq :
        Construct(mp, ms, ps, mpps)

SetTable(t) ==
    /\ page_indices' = t.page_indices
    /\ page_owners' = t.page_owners
    /\ seq_lens' = t.seq_lens

Assign ==
    LET r == assign_seq_id_to_seq(Table)
    IN  /\ SetTable(r.table)
        /\ call' = "assign_seq_id_to_seq"
        /\ UNCHANGED <<kv_cache, sample, page_size, page_ref_counts, kv_pages, attn_batch,
                     attn_out>>

\* the number of tokens tagged s
CountOf(tokens, s) == Cardinality({i \in DOMAIN tokens : tokens[i] = s})

\* The arguments of one allocate_for_seqs call as its docstring describes them:
\* updated_seqs holds distinct slot ids padded with -1, tokens holds the slot id
\* of every new token (in any order) padded with -1, and new_counts holds the
\* number of tokens of each updated sequence.
AllocArgs(t) ==
    {a \in [updated_seqs : [0..(max_seqs(t) - 1) -> (-1)..(max_seqs(t) - 1)],
            tokens : UNION {[0..(n - 1) -> (-1)..(max_seqs(t) - 1)] : n \in 1..MaxTokens}] :
        /\ \A i, j \in DOMAIN a.updated_seqs :
              a.updated_seqs[i] >= 0 /\ a.updated_seqs[i] = a.updated_seqs[j] => i = j
        /\ \A i \in DOMAIN a.tokens :
              a.tokens[i] >= 0 => \E j \in DOMAIN a.updated_seqs : a.updated_seqs[j] = a.tokens[i]}

CountsOf(a) ==
    [i \in DOMAIN a.updated_seqs |->
        IF a.updated_seqs[i] >= 0 THEN CountOf(a.tokens, a.updated_seqs[i]) ELSE 0]

\* the result of allocate_for_seqs on the current table for the arguments a
Result(a) == allocate_for_seqs(Table, page_size, a.updated_seqs, CountsOf(a), a.tokens)

\* the calls the model makes from the current table (lengths are capped)
AllocCalls ==
    {a \in AllocArgs(Table) :
        \A s \in DOMAIN seq_lens :
            new_lens(Table, a.updated_seqs, CountsOf(a))[s] <= MaxSeqLen}

Allocate ==
    \E a \in AllocCalls :
        /\ SetTable(Result(a).table)
        /\ call' = "allocate_for_seqs"
        /\ UNCHANGED <<kv_cache, sample, page_size, page_ref_counts, kv_pages, attn_batch,
                     attn_out>>

\* sequence ids outside [0, max_seqs) other than the padding value
OutOfRangeIds(t) == {-2, max_seqs(t)}

\* allocate_for_seqs calls that name one out of range id: it is the first entry of
\* updated_seqs and the tag of every token
OutOfRangeCalls ==
    {a \in [updated_seqs : [0..(max_seqs(Table) - 1) -> OutOfRangeIds(Table) \cup {INVALID}],
            tokens : UNION {[0..(n - 1) -> OutOfRangeIds(Table)] : n \in 1..MaxTokens}] :
        /\ a.updated_seqs[0] # INVALID
        /\ \A i \in DOMAIN a.updated_seqs : i > 0 => a.updated_seqs[i] = INVALID
        /\ \A i \in DOMAIN a.tokens : a.tokens[i] = a.updated_seqs[0]}

\* the result of allocate_for_seqs on the current table for the out of range call a
OutOfRangeResult(a) ==
    allocate_for_seqs(Table, page_size, a.updated_seqs,
                      [i \in DOMAIN a.updated_seqs |-> CountOf(a.tokens, a.updated_seqs[i])],
                      a.tokens)

AllocateOutOfRange ==
    \E a \in OutOfRangeCalls :
        /\ SetTable(OutOfRangeResult(a).table)
        /\ call' = "allocate_for_seqs"
        /\ UNCHANGED <<kv_cache, sample, page_size, page_ref_counts, kv_pages, attn_batch,
                     attn_out>>

\* the seq_id arguments of free_pages: every slot id, the INVALID sentinel and
\* the first id past the last slot
FreeIds(t) == INVALID..max_seqs(t)

FreePages ==
    \E seq_id \in FreeIds(Table) :
        /\ SetTable(free_pages(Table, seq_id))
        /\ call' = "free_pages"
        /\ UNCHANGED <<kv_cache, sample, page_size, page_ref_counts, kv_pages, attn_batch,
                     attn_out>>

Next == Assign \/ Allocate \/ AllocateOutOfRange \/ FreePages

Spec == Init /\ [][Next]_vars

\* The one-sequence table with pages of up to MaxScenPageSize slots, driven with
\* batches of up to MaxScenTokens tokens, all of sequence 0 or padding.
ScenAllocArgs ==
    {a \in [updated_seqs : [0..0 -> {INVALID, 0}],
            tokens : UNION {[0..(n - 1) -> {INVALID, 0}] : n \in 1..MaxScenTokens}] :
        \A i \in DOMAIN a.tokens : a.tokens[i] >= 0 => a.updated_seqs[0] = 0}

ScenAllocCalls ==
    {a \in ScenAllocArgs :
        new_lens(Table, a.updated_seqs, CountsOf(a))[0] <= MaxScenLen}

ScenAllocate ==
    \E a \in ScenAllocCalls :
        /\ SetTable(Result(a).table)
        /\ call' = "allocate_for_seqs"
        /\ UNCHANGED <<kv_cache, sample, page_size, page_ref_counts, kv_pages, attn_batch,
                     attn_out>>

InitScen ==
    \E ps \in 1..MaxScenPageSize, mp \in 1..MaxPages, mpps \in 1..MaxScenPagesPerSeq :
        Construct(mp, 1, ps, mpps)

NextScen == Assign \/ ScenAllocate \/ FreePages

SpecScen == InitScen /\ [][NextScen]_vars

----------------------------------------------------------------------------
\* Ref-counted PageTable (inference/page_table.py): init, assign_seq_id_to_seq,
\* allocate_for_seq and the PageBatchInfo it returns

\* argmax that returns the last index holding the maximum
ArgMax_Last(a) ==
    CHOOSE i \in DOMAIN a :
        /\ \A j \in DOMAIN a : a[i] >= a[j]
        /\ \A j \in DOMAIN a : j > i => a[j] < a[i]

\* argmax: the first index holding the maximum
ArgMax(a) ==
    CHOOSE i \in DOMAIN a :
        /\ \A j \in DOMAIN a : a[i] >= a[j]
        /\ \A j \in DOMAIN a : j < i => a[j] < a[i]

\* a.at[i, j].set(v): dropped when either index is out of bounds
Set2Drop(a, i, j, v) ==
    LET i2 == NormIndex(i, Size(a))
    IN  IF i2 >= 0 /\ i2 < Size(a) THEN [a EXCEPT ![i2] = SetDrop(@, j, v)] ELSE a

\* PageTable.init
rc_init(mp, ms, mpps) ==
    [page_indices    |-> Full(ms, Full(mpps, INVALID_RC)),
     page_ref_counts |-> Full(mp, 0),
     seq_lens        |-> Full(ms, INVALID_RC)]

\* PageTable.assign_seq_id_to_seq
rc_assign_seq_id_to_seq(t) ==
    LET first == ArgMax(t.seq_lens)
        seq_id == IF is_invalid(t.seq_lens[first]) THEN first ELSE INVALID_RC
    IN  [table  |-> [t EXCEPT !.seq_lens =
                        IF seq_id >= 0 THEN SetDrop(t.seq_lens, seq_id, 0) ELSE t.seq_lens],
         seq_id |-> seq_id]

\* hax.unique_counts(ids, max_Seq, fill_value): the distinct values in increasing
\* order, cut or filled to n entries, and the number of occurrences of each
unique_counts(ids, n, fill_value) ==
    LET vals == {ids[i] : i \in DOMAIN ids}
        nth(i) == CHOOSE v \in vals : Cardinality({u \in vals : u < v}) = i
    IN  [values |-> [i \in 0..(n - 1) |->
                        IF i < Cardinality(vals) THEN nth(i) ELSE fill_value],
         counts |-> [i \in 0..(n - 1) |->
                        IF i < Cardinality(vals)
                        THEN Cardinality({j \in DOMAIN ids : ids[j] = nth(i)})
                        ELSE 0]]

\* body of the page loop: error_if when no page has count 0, else take
\* argmin(page_ref_counts) for (seq_id, page_idx)
rc_alloc_body(seq_id, page_idx, st) ==
    LET has_free == \E p \in DOMAIN st.page_ref_counts : st.page_ref_counts[p] = 0
        free_page_idx == ArgMin(st.page_ref_counts)
    IN  IF has_free
        THEN [page_ref_counts |-> AddDrop(st.page_ref_counts, free_page_idx, 1),
              page_indices |-> Set2Drop(st.page_indices, seq_id, page_idx, free_page_idx),
              raised |-> st.raised]
        ELSE [st EXCEPT !.raised = TRUE]

RECURSIVE rc_alloc_pages_loop(_, _, _, _)
\* jax.lax.fori_loop(old_needed, num_needed, body, ...)
rc_alloc_pages_loop(seq_id, lo, hi, st) ==
    IF lo >= hi THEN st
    ELSE rc_alloc_pages_loop(seq_id, lo + 1, hi, rc_alloc_body(seq_id, lo, st))

RECURSIVE rc_outer_loop(_, _, _, _, _, _)
\* jax.lax.fori_loop(0, max_seqs, outer, ...): _alloc_pages_for_seq for every valid
\* entry of updated_seqs
rc_outer_loop(t, ps, nl, updated_seqs, i, st) ==
    IF i >= Size(updated_seqs) THEN st
    ELSE LET seq_id == updated_seqs[i]
             old_needed == PagesNeeded(GetClip(t.seq_lens, seq_id), ps)
             num_needed == PagesNeeded(GetClip(nl, seq_id), ps)
         IN  rc_outer_loop(t, ps, nl, updated_seqs, i + 1,
                           IF is_valid(seq_id)
                           THEN rc_alloc_pages_loop(seq_id, old_needed, num_needed, st)
                           ELSE st)

\* the destination of one token in _slice_batch_info.token_body.assign
rc_token_dest(new_table, ps, seq_cursors, seq_id) ==
    LET cur  == GetClip(seq_cursors, seq_id)
        page == GetClip(GetClip(new_table.page_indices, seq_id), cur \div ps)
    IN  IF is_invalid(page) THEN INVALID_RC ELSE page * ps + (cur % ps)

RECURSIVE rc_token_loop(_, _, _, _, _)
\* jax.lax.fori_loop(0, len(tokens), token_body, (token_dests, seq_cursors))
rc_token_loop(new_table, ps, tokens, i, carry) ==
    IF i >= Size(tokens) THEN carry
    ELSE LET seq_id == tokens[i]
             next == IF is_valid(seq_id)
                     THEN [token_dests |-> [carry.token_dests EXCEPT
                                ![i] = rc_token_dest(new_table, ps, carry.seq_cursors, seq_id)],
                           seq_cursors |-> AddDrop(carry.seq_cursors, seq_id, 1)]
                     ELSE carry
         IN  rc_token_loop(new_table, ps, tokens, i + 1, next)

\* _relative_positions: the offset of each index inside its run of equal ids
relative_positions(seg_ids) ==
    [i \in DOMAIN seg_ids |->
        i - CHOOSE b \in 0..i :
                /\ b = 0 \/ seg_ids[b] # seg_ids[b - 1]
                /\ \A c \in (b + 1)..i : seg_ids[c] = seg_ids[c - 1]]

\* PageTable._pos_ids_from_seq_ids, on the table the call was made on
pos_ids_from_seq_ids(t, seq_ids) ==
    [i \in DOMAIN seq_ids |->
        IF is_invalid(seq_ids[i]) THEN INVALID_RC
        ELSE GetClip(t.seq_lens, seq_ids[i]) + relative_positions(seq_ids)[i]]

\* PageTable._slice_batch_info
rc_slice_batch_info(t, ps, updated_seqs, new_table, new_token_counts, tokens) ==
    LET mask == [i \in DOMAIN updated_seqs |-> is_valid(updated_seqs[i])]
        safe_updated == [i \in DOMAIN updated_seqs |->
                            IF mask[i] THEN updated_seqs[i] ELSE 0]
        seq_cursors == [s \in DOMAIN t.seq_lens |->
                            IF is_invalid(t.seq_lens[s]) THEN 0 ELSE t.seq_lens[s]]
        done == rc_token_loop(new_table, ps, tokens, 0,
                              [token_dests |-> Full(Size(tokens), INVALID_RC),
                               seq_cursors |-> seq_cursors])
    IN  [page_indices |-> [i \in DOMAIN updated_seqs |->
                            IF mask[i] THEN GetClip(new_table.page_indices, safe_updated[i])
                            ELSE Full(Size(new_table.page_indices[0]), INVALID_RC)],
         seq_lens |-> [i \in DOMAIN updated_seqs |->
                            IF mask[i] THEN GetClip(new_table.seq_lens, safe_updated[i])
                            ELSE INVALID_RC],
         cu_q_lens |-> [i \in 0..Size(updated_seqs) |-> SumUpTo(new_token_counts, i)],
         num_seqs |-> Cardinality({i \in DOMAIN updated_seqs : mask[i]}),
         new_token_dests |-> done.token_dests,
         pos_ids |-> pos_ids_from_seq_ids(t, tokens)]

\* PageTable.allocate_for_seq: (new table, batch info), and whether error_if fired
allocate_for_seq(t, ps, token_seq_ids_in) ==
    LET ms == Size(t.page_indices)
        token_seq_ids == [i \in DOMAIN token_seq_ids_in |->
                            IF token_seq_ids_in[i] < 0 THEN ms ELSE token_seq_ids_in[i]]
        uc == unique_counts(token_seq_ids, ms, INVALID_RC)
        updated_seqs == uc.values
        new_counts == [i \in DOMAIN updated_seqs |->
                          IF updated_seqs[i] >= ms THEN 0 ELSE uc.counts[i]]
        current_lens == [s \in DOMAIN t.seq_lens |->
                            IF is_invalid(t.seq_lens[s]) THEN 0 ELSE t.seq_lens[s]]
        added == ScatterAdd(current_lens, updated_seqs, new_counts, Size(updated_seqs))
        nl == [s \in DOMAIN t.seq_lens |->
                  IF ~is_invalid(t.seq_lens[s]) THEN added[s] ELSE INVALID_RC]
        st == rc_outer_loop(t, ps, nl, updated_seqs, 0,
                            [page_indices |-> t.page_indices,
                             page_ref_counts |-> t.page_ref_counts,
                             raised |-> FALSE])
        new_table == [page_indices |-> st.page_indices,
                      page_ref_counts |-> st.page_ref_counts,
                      seq_lens |-> nl]
    IN  [table |-> new_table,
         batch_info |-> rc_slice_batch_info(t, ps, updated_seqs, new_table, new_counts,
                                            token_seq_ids),
         updated_seqs |-> updated_seqs,
         new_counts |-> new_counts,
         raised |-> st.raised]

\* the ref-counted table of the current state
RcState == [page_indices |-> page_indices, page_ref_counts |-> page_ref_counts,
            seq_lens |-> seq_lens]

SetRcState(t) ==
    /\ page_indices' = t.page_indices
    /\ page_ref_counts' = t.page_ref_counts
    /\ seq_lens' = t.seq_lens

InitRc ==
    \E ps \in 1..MaxPageSize, mp \in 1..MaxRcPages, ms \in 1..MaxSeqs,
       mpps \in 1..MaxPagesPerSeq :
        /\ page_size = ps
        /\ page_indices = rc_init(mp, ms, mpps).page_indices
        /\ page_ref_counts = rc_init(mp, ms, mpps).page_ref_counts
        /\ seq_lens = rc_init(mp, ms, mpps).seq_lens
        /\ page_owners = <<>>
        /\ kv_pages = <<>>
        /\ call = "init"
        /\ attn_batch = NoBatch
        /\ attn_out = <<>>
        /\ sample = NoSample
        /\ kv_cache = NoKvCache

RcAssign ==
    /\ SetRcState(rc_assign_seq_id_to_seq(RcState).table)
    /\ call' = "assign_seq_id_to_seq"
    /\ UNCHANGED <<kv_cache, sample, page_size, page_owners, kv_pages, attn_batch, attn_out>>

\* the token_seq_ids arguments of allocate_for_seq: slot ids and padding (-1)
RcTokenSeqIds ==
    UNION {[0..(n - 1) -> INVALID..(Size(seq_lens) - 1)] : n \in 1..MaxRcTokens}

\* the calls the model makes from the current table (lengths are capped)
RcAllocCalls ==
    {ids \in RcTokenSeqIds :
        \A s \in DOMAIN seq_lens :
            is_valid(seq_lens[s]) => seq_lens[s] + CountOf(ids, s) <= MaxSeqLen}

RcResult(ids) == allocate_for_seq(RcState, page_size, ids)

\* allocate_for_seq; when error_if fires the call raises and the caller keeps its table
RcAllocate ==
    \E ids \in RcAllocCalls :
        /\ IF RcResult(ids).raised
           THEN /\ call' = "allocate_for_seq raised"
                /\ UNCHANGED <<page_indices, page_ref_counts, seq_lens>>
           ELSE /\ call' = "allocate_for_seq"
                /\ SetRcState(RcResult(ids).table)
        /\ UNCHANGED <<kv_cache, sample, page_size, page_owners, kv_pages, attn_batch, attn_out>>

RcFreePages ==
    \E seq_id \in INVALID..Size(seq_lens) :
        /\ SetRcState(rc_free_pages(RcState, seq_id))
        /\ call' = "free_pages"
        /\ UNCHANGED <<kv_cache, sample, page_size, page_owners, kv_pages, attn_batch, attn_out>>

NextRc == RcAssign \/ RcAllocate \/ RcFreePages

SpecRc == InitRc /\ [][NextRc]_vars

\* The serving loop on either page table: the single-owner table of
\* layers/attention.py, which keeps no reference counts, or the ref-counted table
\* of inference/page_table.py, each driven by its own calls.
InitEither == Init \/ InitRc

NextEither ==
    \/ DOMAIN page_ref_counts = {} /\ Next
    \/ DOMAIN page_ref_counts # {} /\ NextRc

SpecEither == InitEither /\ [][NextEither]_vars

----------------------------------------------------------------------------
\* Decode steps: allocate_for_seqs, then update_kv_cache with the returned batch
\* info (Attention.paged_decode, sample_lm.do_generate)

\* The key and value vectors a decode step writes for its tokens: one symbol for
\* each token, naming its sequence and its row in the batch.
SeqK(tokens) == [i \in DOMAIN tokens |-> <<"k", tokens[i], i>>]

SeqV(tokens) == [i \in DOMAIN tokens |-> <<"v", tokens[i], i>>]

\* the states update_kv_cache can return for the batch of call a on the current cache
KvUpdates(a) ==
    LET binfo == Result(a).batch_info
    IN  {update_kv_cache(from_batch(binfo, kv_pages),
                         SeqK(a.tokens), SeqV(a.tokens), ord_k, ord_v) :
            ord_k \in Orders(binfo.new_token_dests),
            ord_v \in Orders(binfo.new_token_dests)}

Decode ==
    \E a \in AllocCalls :
        \E state \in KvUpdates(a) :
            /\ SetTable(Result(a).table)
            /\ kv_pages' = state.kv_pages
            /\ call' = "paged_decode"
            /\ UNCHANGED <<kv_cache, sample, page_size, page_ref_counts, attn_batch, attn_out>>

NextKv == Assign \/ Decode \/ FreePages

\* The cache is followed on the smaller tables: max_seqs + max_pages <= MaxKvSize
\* and a cache of at most MaxKvSlots slots.
InitKv ==
    \E ps \in 1..MaxPageSize, mp \in 1..MaxPages, ms \in 1..MaxSeqs,
       mpps \in 1..MaxPagesPerSeq :
        /\ ms + mp <= MaxKvSize
        /\ ms * mpps * ps <= MaxKvSlots
        /\ Construct(mp, ms, ps, mpps)

SpecKv == InitKv /\ [][NextKv]_vars

----------------------------------------------------------------------------
\* KvCache and append_to_kv_cache.  The key or the value of one position is a
\* block of kv_heads head vectors; a head vector is a symbol: the n-th call brings
\* <<"k", n, b, j, h>> and <<"v", n, b, j, h>> for row b, new token j and head h.

\* a head vector of zeros
ZeroVec == <<"zero", 0, 0, 0, 0>>

\* KvCache.init
KvCache_init(batch, max_len, kv_heads) ==
    [keys    |-> Full(batch, Full(max_len, Full(kv_heads, ZeroVec))),
     values  |-> Full(batch, Full(max_len, Full(kv_heads, ZeroVec))),
     lengths |-> Full(batch, 0)]

\* k[batch_idx, pos_idx]: the entry of each row at its index
IndexedGet(k, pos_idx) == [b \in DOMAIN k |-> GetClip(k[b], pos_idx[b])]

\* the indexed update with the index clamped into the row
IndexedUpdate_Clip(k, pos_idx, vals) ==
    [b \in DOMAIN k |->
        [k[b] EXCEPT ![Max2(0, Min2(NormIndex(pos_idx[b], Size(k[b])), Size(k[b]) - 1))]
                         = vals[b]]]

\* k.at[batch_idx, pos_idx].set(vals)
IndexedUpdate(k, pos_idx, vals) == [b \in DOMAIN k |-> SetDrop(k[b], pos_idx[b], vals[b])]

\* specialized_path of append_to_kv_cache, for new keys and values of shape
\* [batch, max_new_tokens, kv_heads, head_size]
specialized_path(k, v, l, nk, nv, nl) ==
    LET should_update == [b \in DOMAIN k |-> nl[b] = 1]
        vals_to_set_k == [b \in DOMAIN k |->
                             IF should_update[b] THEN nk[b][0] ELSE IndexedGet(k, l)[b]]
        vals_to_set_v == [b \in DOMAIN k |->
                             IF should_update[b] THEN nv[b][0] ELSE IndexedGet(v, l)[b]]
    IN  [k |-> IndexedUpdate(k, l, vals_to_set_k),
         v |-> IndexedUpdate(v, l, vals_to_set_v)]

\* general_path of append_to_kv_cache, for new keys and values of shape
\* [batch, max_new_tokens, kv_heads, head_size]
general_path(k, v, l, nk, nv, nl) ==
    LET max_new_tokens == Size(nv[0])
        update_mask(b, p) == p >= l[b] /\ p < l[b] + nl[b]
        clipped_source_indices(b, p) == Max2(0, Min2(p - l[b], max_new_tokens - 1))
    IN  [k |-> [b \in DOMAIN k |-> [p \in DOMAIN k[b] |->
                   IF update_mask(b, p) THEN nk[b][clipped_source_indices(b, p)]
                   ELSE k[b][p]]],
         v |-> [b \in DOMAIN v |-> [p \in DOMAIN v[b] |->
                   IF update_mask(b, p) THEN nv[b][clipped_source_indices(b, p)]
                   ELSE v[b][p]]]]

\* append_to_kv_cache
append_to_kv_cache(keys, values, lengths, new_keys, new_values, new_lengths) ==
    LET is_special_case == \A b \in DOMAIN new_lengths : new_lengths[b] <= 1
        updated == IF is_special_case
                   THEN specialized_path(keys, values, lengths, new_keys, new_values,
                                         new_lengths)
                   ELSE general_path(keys, values, lengths, new_keys, new_values,
                                     new_lengths)
    IN  [keys |-> updated.k, values |-> updated.v,
         lengths |-> [b \in DOMAIN lengths |-> lengths[b] + new_lengths[b]]]

\* The same function traced on the arrays extend_one_position hands to it: new
\* keys and values of shape [batch, kv_heads, head_size], with no position axis,
\* so that axis 1 of the new arrays is the head axis.

\* Both branches of lax.cond are traced and must return the cache's shape
\* [batch, max_len, kv_heads, head_size].  In specialized_path jnp.where broadcasts
\* nk[:, 0] of shape [batch, head_size] against [batch, kv_heads, head_size]; in
\* general_path it broadcasts nk[b_coords, clipped_source_indices] of shape
\* [batch, max_len, head_size] against [batch, max_len, kv_heads, head_size].
NoPositionAxisShapesFit(batch, max_len, kv_heads) ==
    /\ batch = 1 \/ batch = kv_heads
    /\ batch = 1 \/ batch = max_len
    /\ max_len = 1 \/ max_len = kv_heads

\* specialized_path on new arrays without a position axis: update_vals = nk[:, 0]
\* is head 0 of every row, and the broadcast lines its row axis up with the head
\* axis of the cache
specialized_path_NoPositionAxis(k, v, l, nk, nv, nl) ==
    LET batch == Size(k)
        kv_heads == Size(k[0][0])
        should_update == [b \in DOMAIN k |-> nl[b] = 1]
        update_vals(n, h) == IF batch = 1 THEN n[0][0] ELSE n[h][0]
        vals_to_set_k == [b \in DOMAIN k |-> [h \in 0..(kv_heads - 1) |->
                             IF should_update[b] THEN update_vals(nk, h)
                             ELSE IndexedGet(k, l)[b][h]]]
        vals_to_set_v == [b \in DOMAIN k |-> [h \in 0..(kv_heads - 1) |->
                             IF should_update[b] THEN update_vals(nv, h)
                             ELSE IndexedGet(v, l)[b][h]]]
    IN  [k |-> IndexedUpdate(k, l, vals_to_set_k),
         v |-> IndexedUpdate(v, l, vals_to_set_v)]

\* KvCache.extend_one_position(keys, values): extend with lengths = 1, which
\* extend broadcasts to every row; all(new_lengths <= 1) selects specialized_path
extend_one_position(cache, keys, values) ==
    LET lengths == Full(Size(cache.lengths), 1)
        updated == specialized_path_NoPositionAxis(cache.keys, cache.values, cache.lengths,
                                                   keys, values, lengths)
    IN  [keys |-> updated.k, values |-> updated.v,
         lengths |-> [b \in DOMAIN cache.lengths |-> cache.lengths[b] + lengths[b]]]

\* the new keys (kind "k") or values (kind "v") of call n
NewVecs(kind, n, batch, max_new_tokens, kv_heads) ==
    [b \in 0..(batch - 1) |-> [j \in 0..(max_new_tokens - 1) |->
        [h \in 0..(kv_heads - 1) |-> <<kind, n, b, j, h>>]]]

\* the keys or values of call n for one position: [batch, kv_heads, head_size]
NewVecsOnePosition(kind, n, batch, kv_heads) ==
    [b \in 0..(batch - 1) |-> [h \in 0..(kv_heads - 1) |-> <<kind, n, b, 0, h>>]]

\* the inputs of one more call on the cache: new_keys and new_values of
\* max_new_tokens tokens for each row, of which new_lengths[b] are real
AppendInputs ==
    LET batch == Size(kv_cache.lengths)
        kv_heads == Size(kv_cache.keys[0][0])
    IN  UNION {[new_lengths : [DOMAIN kv_cache.lengths -> 0..m],
                new_keys : {NewVecs("k", kv_cache.calls, batch, m, kv_heads)},
                new_values : {NewVecs("v", kv_cache.calls, batch, m, kv_heads)}] :
               m \in 1..MaxAppendTokens}

\* the result of append_to_kv_cache on the current cache for the inputs x
AppendResult(x) ==
    append_to_kv_cache(kv_cache.keys, kv_cache.values, kv_cache.lengths,
                       x.new_keys, x.new_values, x.new_lengths)

\* KvCache.init(Batch, Pos, KVHeads, ...); calls counts the calls made on the cache
InitAppend ==
    \E batch \in 1..MaxBatch, max_len \in 1..MaxLen, kv_heads \in 1..MaxKvHeads :
        /\ kv_cache = [keys |-> KvCache_init(batch, max_len, kv_heads).keys,
                       values |-> KvCache_init(batch, max_len, kv_heads).values,
                       lengths |-> KvCache_init(batch, max_len, kv_heads).lengths,
                       calls |-> 0]
        /\ call = "KvCache.init"
        /\ page_size = 0
        /\ page_indices = <<>>
        /\ page_owners = <<>>
        /\ page_ref_counts = <<>>
        /\ seq_lens = <<>>
        /\ kv_pages = <<>>
        /\ attn_batch = NoBatch
        /\ attn_out = <<>>
        /\ sample = NoSample

\* KvCache.extend with keys and values of shape [batch, position, kv_heads,
\* head_size] and a length for every row: append_to_kv_cache on the arrays
AppendToKvCache ==
    /\ kv_cache.calls < MaxAppendCalls
    /\ \E x \in AppendInputs :
          kv_cache' = [keys |-> AppendResult(x).keys,
                       values |-> AppendResult(x).values,
                       lengths |-> AppendResult(x).lengths,
                       calls |-> kv_cache.calls + 1]
    /\ call' = "append_to_kv_cache"
    /\ UNCHANGED <<sample, page_size, page_indices, page_owners, page_ref_counts, seq_lens,
                   kv_pages, attn_batch, attn_out>>

\* KvCache.extend_one_position; when the shapes of the two traced branches do not
\* fit, tracing fails and the caller keeps its cache
ExtendOnePosition ==
    /\ kv_cache.calls < MaxAppendCalls
    /\ LET batch == Size(kv_cache.lengths)
           max_len == Size(kv_cache.keys[0])
           kv_heads == Size(kv_cache.keys[0][0])
           r == extend_one_position(kv_cache,
                    NewVecsOnePosition("k", kv_cache.calls, batch, kv_heads),
                    NewVecsOnePosition("v", kv_cache.calls, batch, kv_heads))
       IN  IF NoPositionAxisShapesFit(batch, max_len, kv_heads)
           THEN /\ kv_cache' = [keys |-> r.keys, values |-> r.values,
                                lengths |-> r.lengths, calls |-> kv_cache.calls + 1]
                /\ call' = "extend_one_position"
           ELSE /\ kv_cache' = [kv_cache EXCEPT !.calls = @ + 1]
                /\ call' = "extend_one_position raised"
    /\ UNCHANGED <<sample, page_size, page_indices, page_owners, page_ref_counts, seq_lens,
                   kv_pages, attn_batch, attn_out>>

NextAppend == AppendToKvCache \/ ExtendOnePosition

SpecAppend == InitAppend /\ [][NextAppend]_vars

----------------------------------------------------------------------------
\* default_ragged_paged_attention.  The query of flattened row t is the symbol t
\* (-1 for a row of the zero padding); a cache slot holds a key symbol and a
\* value symbol.  An output row is the softmax-weighted sum the kernel computes
\* for it, kept as the list of the (position label, key, value) entries the mask
\* admits, in the order the kernel visits them.  All values are finite.

\* Q_BS = min(4, q.axis_size("position")), KV_BS = min(32, page_indices.axis_size("page"))
QBlockSize == 4

KvBlockPages == 32

Q_BS(T) == Min2(QBlockSize, T)

KV_BS(pps) == Min2(KvBlockPages, pps)

\* the start jax.lax.dynamic_slice uses for a slice of `size` entries of an axis
\* of n entries: the slice is moved back so that it fits
DsStart(start, size, n) == Max2(0, Min2(start, n - size))

padding_amount(T) == ((Q_BS(T) - (T % Q_BS(T))) % Q_BS(T)) + Q_BS(T)

\* a row of zeros
ZeroRow == [q |-> -1, att |-> <<>>, scaled |-> 0]

\* what jax.lax.dynamic_slice raises for a slice longer than its operand
TypeError == "TypeError"

\* q["position", hax.ds(0, padding_amount)]: the slice of padding_amount rows is
\* taken from the T rows of q, so it exists only when padding_amount <= T
PaddingFits(T) == padding_amount(T) <= T

\* hax.zeros_like(padded q)
ZeroOutput(T) == IF PaddingFits(T) THEN Full(T + padding_amount(T), ZeroRow) ELSE TypeError

\* row t of the padded query
PaddedQ(T, t) == IF ~PaddingFits(T) THEN TypeError ELSE IF t < T THEN t ELSE -1

\* the mask without its causal term
attn_mask_NotCausal(kv_tok, q_tok, kv_len, q_pos_id_end) ==
    kv_tok < kv_len /\ q_tok < q_pos_id_end

\* attn_mask of _compute_attention_for_kv_block
attn_mask(kv_tok, q_tok, kv_len, q_pos_id_end) ==
    kv_tok <= q_tok /\ kv_tok < kv_len /\ q_tok < q_pos_id_end

\* q_pos_id_start that takes the first query of the batch to be at position kv_len
q_pos_id_start_AtEnd(kv_len, q_len, q_start, cu_seq) == kv_len + q_start - cu_seq

\* the position in its sequence of the first query of a block
q_pos_id_start(kv_len, q_len, q_start, cu_seq) == kv_len - q_len + q_start - cu_seq

\* _compute_attention_for_kv_block for the query at position q_tok: the entries
\* of the block the mask admits
kv_block_att(kvp, b, seq_id, kv_block_id, q_tok, kv_len, q_pos_id_end) ==
    LET ps    == Size(kvp[0])
        pps   == Size(b.page_indices[0])
        kv_page_start == kv_block_id * KV_BS(pps)
        first == DsStart(kv_page_start, KV_BS(pps), pps)
        block_page_idx == [j \in 0..(KV_BS(pps) - 1) |-> b.page_indices[seq_id][first + j]]
        kv_pos_start == kv_page_start * ps
        slot(n) == GetClip(kvp, block_page_idx[n \div ps])[n % ps]
        kv_block == [n \in 1..(KV_BS(pps) * ps) |->
                        [kv_tok |-> kv_pos_start + (n - 1),
                         k |-> slot(n - 1).k, v |-> slot(n - 1).v]]
        admitted(c) == attn_mask(c.kv_tok, q_tok, kv_len, q_pos_id_end)
    IN  SelectSeq(kv_block, admitted)

RECURSIVE kv_blocks_loop(_, _, _, _, _, _, _, _, _)
\* jax.lax.fori_loop(0, num_kv_blocks, _compute_attention_for_kv_block, ...)
kv_blocks_loop(kvp, b, seq_id, lo, hi, q_tok, kv_len, q_pos_id_end, att) ==
    IF lo >= hi THEN att
    ELSE kv_blocks_loop(kvp, b, seq_id, lo + 1, hi, q_tok, kv_len, q_pos_id_end,
                        att \o kv_block_att(kvp, b, seq_id, lo, q_tok, kv_len, q_pos_id_end))

\* row r of the block _compute_attention_for_q_block writes.  The blocks of q and
\* of o are read with hax.ds(q_start, Q_BS), a dynamic slice that is moved back to
\* fit.  o_b starts as the rows the output already holds; the first key/value
\* block multiplies them by exp(-inf) = 0, and with no key/value block they are
\* divided by 1e-10.
q_block_row(kvp, b, o, seq_id, q_block_id, r) ==
    LET T       == Size(b.new_token_dests)
        ps      == Size(kvp[0])
        pps     == Size(b.page_indices[0])
        q_len   == b.cu_q_lens[seq_id + 1] - b.cu_q_lens[seq_id]
        q_start == b.cu_q_lens[seq_id] + (q_block_id * Q_BS(T))
        first   == DsStart(q_start, Q_BS(T), Size(o))
        kv_len  == b.seq_lens[seq_id]
        start   == q_pos_id_start(kv_len, q_len, q_start, b.cu_q_lens[seq_id])
        q_pos_id_end == start + q_len
        q_tok   == start + r
        kv_pos_per_block == ps * KV_BS(pps)
        num_kv_blocks == (kv_len + kv_pos_per_block - 1) \div kv_pos_per_block
        att     == kv_blocks_loop(kvp, b, seq_id, 0, num_kv_blocks, q_tok, kv_len,
                                  q_pos_id_end, <<>>)
    IN  IF ~(q_tok < q_pos_id_end) THEN ZeroRow
        ELSE IF num_kv_blocks <= 0
             THEN (IF o[first + r] = ZeroRow THEN ZeroRow
                   ELSE [o[first + r] EXCEPT !.scaled = @ + 1])
        ELSE IF att = <<>> THEN ZeroRow
        ELSE [q |-> PaddedQ(T, first + r), att |-> att, scaled |-> 0]

\* _compute_attention_for_q_block:
\* o.at["position", ds(q_start, Q_BS)].set(o_b, mode="drop") writes row r of the
\* block at index q_start + r, and a row past the end of o is dropped (the write
\* is a scatter, not moved back as the reads are)
q_block(kvp, b, o, seq_id, q_block_id) ==
    LET T       == Size(b.new_token_dests)
        q_start == b.cu_q_lens[seq_id] + (q_block_id * Q_BS(T))
    IN  [t \in DOMAIN o |->
            IF t >= q_start /\ t < q_start + Q_BS(T)
            THEN q_block_row(kvp, b, o, seq_id, q_block_id, t - q_start)
            ELSE o[t]]

RECURSIVE q_blocks_loop(_, _, _, _, _, _)
\* jax.lax.fori_loop(0, num_q_blocks, _compute_attention_for_q_block, o)
q_blocks_loop(kvp, b, o, seq_id, lo, hi) ==
    IF lo >= hi THEN o
    ELSE q_blocks_loop(kvp, b, q_block(kvp, b, o, seq_id, lo), seq_id, lo + 1, hi)

\* _compute_attention_for_seq
compute_attention_for_seq(kvp, b, o, seq_id) ==
    LET T     == Size(b.new_token_dests)
        q_len == b.cu_q_lens[seq_id + 1] - b.cu_q_lens[seq_id]
    IN  q_blocks_loop(kvp, b, o, seq_id, 0, (q_len + Q_BS(T) - 1) \div Q_BS(T))

RECURSIVE seqs_loop_Descending(_, _, _, _, _)
\* the loop over sequences run from the last sequence down to the first
seqs_loop_Descending(kvp, b, o, lo, hi) ==
    IF lo >= hi THEN o
    ELSE seqs_loop_Descending(kvp, b, compute_attention_for_seq(kvp, b, o, hi - 1), lo, hi - 1)

RECURSIVE seqs_loop(_, _, _, _, _)
\* jax.lax.fori_loop(0, num_seqs, _compute_attention_for_seq, output)
seqs_loop(kvp, b, o, lo, hi) ==
    IF lo >= hi THEN o
    ELSE seqs_loop(kvp, b, compute_attention_for_seq(kvp, b, o, lo), lo + 1, hi)

\* default_ragged_paged_attention: the output rows of the T query tokens; building
\* the padded query raises when the padding is longer than the query
default_ragged_paged_attention(kvp, b) ==
    LET T == Size(b.new_token_dests)
        output == seqs_loop(kvp, b, ZeroOutput(T), 0, b.num_seqs)
    IN  IF PaddingFits(T) THEN [t \in 0..(T - 1) |-> output[t]] ELSE TypeError

\* The batches the kernel is run on: the state a serving loop is in after
\* allocate_for_seqs and update_kv_cache.  Every sequence of the batch has
\* ceil(kv_len / page_size) pages of its own, q_len new tokens at the end of its
\* kv_len positions, and the batch may end with padding tokens.
AttnPagesPerSeq == (1..MaxAttnPagesPerSeq) \cup {KvBlockPages + 1}

\* kv_len of sequence i: its new tokens alone, one older token before them, or
\* the whole capacity of its row
AttnKvLen(x, i) ==
    IF x.fill[i] = 2 THEN x.ps * x.pps ELSE x.q_lens[i] + x.fill[i]

AttnInputs ==
    {x \in [ps : 1..MaxPageSize, pps : AttnPagesPerSeq, S : 1..MaxSeqs,
            num_seqs : 0..MaxSeqs, q_lens : [0..(MaxSeqs - 1) -> 0..MaxQLen],
            fill : [0..(MaxSeqs - 1) -> 0..2], pad : 0..MaxPad, reversed : BOOLEAN] :
        /\ x.num_seqs <= x.S
        /\ \A i \in 0..(MaxSeqs - 1) :
              /\ i >= x.num_seqs => x.q_lens[i] = 0 /\ x.fill[i] = 0
              /\ x.q_lens[i] <= AttnKvLen(x, i)
              /\ AttnKvLen(x, i) <= x.ps * x.pps
        /\ SumUpTo(x.q_lens, MaxSeqs) + x.pad >= 1}

\* the j-th page of sequence i
AttnPage(x, i, j) ==
    IF x.reversed THEN ((x.pps * x.S) - 1) - ((j * x.S) + i) ELSE (j * x.S) + i

AttnRows(x) ==
    [i \in 0..(x.S - 1) |-> [j \in 0..(x.pps - 1) |->
        IF i < x.num_seqs /\ j < PagesNeeded(AttnKvLen(x, i), x.ps)
        THEN AttnPage(x, i, j) ELSE INVALID]]

AttnLens(x) == [i \in 0..(x.S - 1) |-> IF i < x.num_seqs THEN AttnKvLen(x, i) ELSE INVALID]

AttnBatch(x) ==
    LET T  == SumUpTo(x.q_lens, MaxSeqs) + x.pad
        cu == [i \in 0..x.S |-> SumUpTo(x.q_lens, i)]
        seq_of(t) == CHOOSE i \in 0..(x.S - 1) : cu[i] <= t /\ t < cu[i + 1]
        pos(t) == AttnKvLen(x, seq_of(t)) - x.q_lens[seq_of(t)] + (t - cu[seq_of(t)])
    IN  [page_indices |-> AttnRows(x),
         seq_lens |-> AttnLens(x),
         cu_q_lens |-> cu,
         num_seqs |-> x.num_seqs,
         new_token_dests |-> [t \in 0..(T - 1) |->
             IF t >= cu[x.S] THEN INVALID
             ELSE (AttnPage(x, seq_of(t), pos(t) \div x.ps) * x.ps) + (pos(t) % x.ps)]]

\* every slot of the cache holds a key and a value of its own
AttnCache(x) ==
    [p \in 0..((x.pps * x.S) - 1) |-> [sl \in 0..(x.ps - 1) |->
        [k |-> <<"k", p, sl>>, v |-> <<"v", p, sl>>]]]

InitAttn ==
    \E x \in AttnInputs :
        /\ page_size = x.ps
        /\ page_indices = AttnRows(x)
        /\ seq_lens = AttnLens(x)
        /\ page_owners = [p \in 0..((x.pps * x.S) - 1) |->
               IF \E i \in 0..(x.S - 1) : p \in {AttnRows(x)[i][j] : j \in 0..(x.pps - 1)}
               THEN CHOOSE i \in 0..(x.S - 1) : p \in {AttnRows(x)[i][j] : j \in 0..(x.pps - 1)}
               ELSE INVALID]
        /\ page_ref_counts = <<>>
        /\ kv_pages = AttnCache(x)
        /\ call = "update_kv_cache"
        /\ attn_batch = AttnBatch(x)
        /\ attn_out = <<>>
        /\ sample = NoSample
        /\ kv_cache = NoKvCache

\* ragged_paged_attention on the batch and the cache; when it raises there is no
\* output
Attention ==
    /\ call = "update_kv_cache"
    /\ IF ~PaddingFits(Size(attn_batch.new_token_dests))
       THEN /\ call' = "ragged_paged_attention raised"
            /\ UNCHANGED attn_out
       ELSE /\ call' = "ragged_paged_attention"
            /\ attn_out' = default_ragged_paged_attention(kv_pages, attn_batch)
    /\ UNCHANGED <<kv_cache, sample, page_size, page_indices, page_owners, page_ref_counts,
                 seq_lens, kv_pages, attn_batch>>

NextAttn == Attention

SpecAttn == InitAttn /\ [][NextAttn]_vars

----------------------------------------------------------------------------
\* sample_lm.main: one sequence, one page that holds the prompt and every new
\* token; a prefill allocation, then max_new_tokens calls of do_generate

\* page_size = len(prompt_ids) + config.max_new_tokens, taken as the prompt alone
SamplePageSize_PromptOnly(prompt_len, max_new_tokens) == prompt_len

\* page_size = len(prompt_ids) + config.max_new_tokens
SamplePageSize(prompt_len, max_new_tokens) == prompt_len + max_new_tokens

\* seq_named = hax.named([seq_id], "seq")
SeqNamed == [i \in 0..0 |-> sample.seq_id]

\* the states of the cache after model.decode has written the batch of the
\* allocate_for_seqs result r for the tokens
SampleKvUpdates(r, tokens) ==
    {update_kv_cache(from_batch(r.batch_info, kv_pages),
                     SeqK(tokens), SeqV(tokens), ord_k, ord_v).kv_pages :
        ord_k \in Orders(r.batch_info.new_token_dests),
        ord_v \in Orders(r.batch_info.new_token_dests)}

\* PageTable.init(max_pages=1, max_seqs=1, page_size=..., max_pages_per_seq=1) for
\* a prompt of prompt_len tokens (the prompt is not empty)
InitSample ==
    \E prompt_len \in 1..MaxPromptLen, max_new_tokens \in 0..MaxNewTokens :
        LET t == init(1, 1, 1)
        IN  /\ page_size = SamplePageSize(prompt_len, max_new_tokens)
            /\ page_indices = t.page_indices
            /\ page_owners = t.page_owners
            /\ page_ref_counts = <<>>
            /\ seq_lens = t.seq_lens
            /\ kv_pages = <<>>
            /\ call = "init"
            /\ attn_batch = NoBatch
            /\ attn_out = <<>>
            /\ sample = [prompt_len |-> prompt_len, max_new_tokens |-> max_new_tokens,
                         seq_id |-> INVALID, generated |-> 0,
                         pos_ids |-> <<>>, dests |-> <<>>]
            /\ kv_cache = NoKvCache

\* page_table.assign_seq_id_to_seq() and model.initial_cache(page_table)
SampleAssign ==
    /\ call = "init"
    /\ LET r == assign_seq_id_to_seq(Table)
       IN  /\ SetTable(r.table)
           /\ kv_pages' = KvPageCache_init(r.table, page_size)
           /\ sample' = [sample EXCEPT !.seq_id = r.seq_id]
    /\ call' = "assign_seq_id_to_seq"
    /\ UNCHANGED <<kv_cache, page_size, page_ref_counts, attn_batch, attn_out>>

\* the prefill: allocate_for_seqs for the prompt, model.decode with
\* pos_ids = arange(len(prompt_ids)), generated = list(prompt_ids).  model.decode
\* runs default_ragged_paged_attention (the kernel of every backend but TPU) on the
\* len(prompt_ids) rows of the prompt; when its padding does not fit, decode
\* raises after the allocation, main ends there and neither the cache nor
\* generated is assigned.
SamplePrefill ==
    /\ call = "assign_seq_id_to_seq"
    /\ LET tokens == [i \in 0..(sample.prompt_len - 1) |-> sample.seq_id]
           r == allocate_for_seqs(Table, page_size, SeqNamed,
                                  [i \in 0..0 |-> sample.prompt_len], tokens)
       IN  /\ SetTable(r.table)
           /\ IF PaddingFits(sample.prompt_len)
              THEN /\ kv_pages' \in SampleKvUpdates(r, tokens)
                   /\ sample' = [sample EXCEPT
                                    !.generated = sample.prompt_len,
                                    !.pos_ids = [i \in 0..(sample.prompt_len - 1) |-> i],
                                    !.dests = r.batch_info.new_token_dests]
                   /\ call' = "prefill"
              ELSE /\ UNCHANGED kv_pages
                   /\ sample' = [sample EXCEPT
                                    !.pos_ids = [i \in 0..(sample.prompt_len - 1) |-> i],
                                    !.dests = r.batch_info.new_token_dests]
                   /\ call' = "prefill raised"
    /\ UNCHANGED <<kv_cache, page_size, page_ref_counts, attn_batch, attn_out>>

\* one iteration of the loop over range(max_new_tokens): do_generate with
\* start = len(generated), then generated.append(next_token); the padding of the
\* one-row query of a decode step always fits.  The loop is not reached when the
\* prefill raised.
SampleGenerate ==
    /\ call \in {"prefill", "do_generate"}
    /\ sample.generated - sample.prompt_len < sample.max_new_tokens
    /\ LET tokens == SeqNamed
           r == allocate_for_seqs(Table, page_size, SeqNamed, [i \in 0..0 |-> 1], tokens)
       IN  /\ SetTable(r.table)
           /\ kv_pages' \in SampleKvUpdates(r, tokens)
           /\ sample' = [sample EXCEPT
                            !.generated = sample.generated + 1,
                            !.pos_ids = [i \in 0..0 |-> sample.generated],
                            !.dests = r.batch_info.new_token_dests]
    /\ call' = "do_generate"
    /\ UNCHANGED <<kv_cache, page_size, page_ref_counts, attn_batch, attn_out>>

NextSample == SampleAssign \/ SamplePrefill \/ SampleGenerate

SpecSample == InitSample /\ [][NextSample]_vars

----------------------------------------------------------------------------
\* Properties of the page table.  A property of a call is stated for every call
\* the serving loop can make from the current state.

\* the least m with m * d >= n
CeilDiv(n, d) == CHOOSE m \in 0..n : m * d >= n /\ (m = 0 \/ (m - 1) * d < n)

\* the pages a page_indices row lists
RowPages(row) == {row[i] : i \in {j \in DOMAIN row : row[j] # INVALID}}

ValidEntries(row) == {i \in DOMAIN row : row[i] # INVALID}

Active(s) == seq_lens[s] >= 0

FreeCount(t) == Cardinality({p \in DOMAIN t.page_owners : t.page_owners[p] = INVALID})

\* the requests of a call's page loop that found no free page
Starved(r) == {i \in 1..Len(r.requests) : ~r.requests[i].was_free}

\* the length a token's cursor starts from
PreLen(s) == IF seq_lens[s] < 0 THEN 0 ELSE seq_lens[s]

\* the number of tokens tagged like token i before it in the batch
Earlier(tokens, i) == Cardinality({j \in DOMAIN tokens : j < i /\ tokens[j] = tokens[i]})

\* C1: after every call, every active slot has exactly ceil(seq_len / page_size)
\* valid entries in its page_indices row.
C1_AllocationConservation ==
    \A s \in DOMAIN seq_lens :
        Active(s) =>
            Cardinality(ValidEntries(page_indices[s])) = CeilDiv(seq_lens[s], page_size)

\* C2: after every call, no page is listed in the rows of two different active slots.
C2_NoDoubleOwnership ==
    \A s1, s2 \in DOMAIN seq_lens :
        Active(s1) /\ Active(s2) /\ s1 # s2 =>
            RowPages(page_indices[s1]) \cap RowPages(page_indices[s2]) = {}

\* the step just taken is the allocate_for_seqs call a
IsAllocate(a) == call' = "allocate_for_seqs" /\ Table' = Result(a).table

\* C3: an allocate_for_seqs call that needs a page when no page is free fails with
\* a reported error instead of returning a table.
C3_ExhaustionReported ==
    [][\A a \in AllocCalls :
          IsAllocate(a) /\ Starved(Result(a)) # {} => Result(a).raised]_vars

\* C4: free_pages(s) on an active slot s frees every page s held (owned by s or
\* listed in its row), resets its row and length, and the number of free pages
\* grows by exactly the number of pages s held.
C4_FreeReleasesAll ==
    [][\A s \in DOMAIN seq_lens :
          call' = "free_pages" /\ Active(s) /\ Table' = free_pages(Table, s) =>
              LET held == {p \in DOMAIN page_owners : page_owners[p] = s}
                              \cup RowPages(page_indices[s])
              IN  /\ \A p \in held : page_owners'[p] = INVALID
                  /\ \A i \in DOMAIN page_indices'[s] : page_indices'[s][i] = INVALID
                  /\ seq_lens'[s] = INVALID
                  /\ FreeCount(Table') = FreeCount(Table) + Cardinality(held)]_vars

\* C5: the j-th token tagged s gets destination
\* page_indices'[s][(L + j) div page_size] * page_size + (L + j) mod page_size,
\* L the length of s before the call, for every position the row has an entry for.
C5_DestinationFormula ==
    \A a \in AllocCalls :
        \A i \in DOMAIN a.tokens :
            LET s == a.tokens[i]
                k == PreLen(s) + Earlier(a.tokens, i)
            IN  s >= 0 /\ (k \div page_size) < pages_per_seq(Table) =>
                    Result(a).batch_info.new_token_dests[i] =
                        (Result(a).table.page_indices[s][k \div page_size] * page_size)
                            + (k % page_size)

\* C5 witness: after an allocation, a call extends a non-empty sequence by two
\* tokens and its second token lands on the sequence's second page.
C5_Witness ==
    /\ call = "allocate_for_seqs"
    /\ \E a \in AllocCalls : \E i \in DOMAIN a.tokens :
          LET s == a.tokens[i]
              k == PreLen(s) + Earlier(a.tokens, i)
          IN  /\ s >= 0 /\ PreLen(s) >= 1 /\ Earlier(a.tokens, i) >= 1
              /\ (k \div page_size) = 1 /\ pages_per_seq(Table) > 1
              /\ Result(a).batch_info.new_token_dests[i] >= 0
              /\ Starved(Result(a)) = {}

\* C6: a padding token, and every token of a sequence for which a needed page could
\* not be allocated in the call, gets the INVALID destination.
C6_InvalidDestinations ==
    [][\A a \in AllocCalls :
          IsAllocate(a) =>
              \A i \in DOMAIN a.tokens :
                  LET r == Result(a)
                  IN  /\ a.tokens[i] < 0 => r.batch_info.new_token_dests[i] = INVALID
                      /\ (\E q \in Starved(r) : r.requests[q].seq = a.tokens[i])
                            => r.batch_info.new_token_dests[i] = INVALID]_vars

\* the lowest-indexed unused slot
LowestUnused ==
    CHOOSE s \in DOMAIN seq_lens :
        seq_lens[s] = INVALID /\ \A u \in DOMAIN seq_lens : u < s => seq_lens[u] # INVALID

\* C11: when some slot is unused, assign_seq_id_to_seq returns the lowest-indexed
\* unused slot, sets its length to 0 and changes no other length, no page_indices
\* row and no page owner.
C11_AssignLowestUnused ==
    (\E s \in DOMAIN seq_lens : seq_lens[s] = INVALID) =>
        LET r == assign_seq_id_to_seq(Table)
        IN  /\ r.seq_id = LowestUnused
            /\ r.table.seq_lens = [seq_lens EXCEPT ![LowestUnused] = 0]
            /\ r.table.page_indices = page_indices
            /\ r.table.page_owners = page_owners

\* C11 witness: assign_seq_id_to_seq has just handed out slot 0 (length 0, empty
\* row) while slot 1 is active with tokens and pages.
C11_Witness ==
    /\ call = "assign_seq_id_to_seq"
    /\ Size(seq_lens) = 2
    /\ seq_lens[0] = 0 /\ ValidEntries(page_indices[0]) = {}
    /\ seq_lens[1] > 0 /\ \E p \in DOMAIN page_owners : page_owners[p] = 1

\* C12: when every slot is active, assign_seq_id_to_seq returns INVALID and the
\* table it was given.
C12_AssignWhenFull ==
    [][(call' = "assign_seq_id_to_seq" /\ \A s \in DOMAIN seq_lens : Active(s)) =>
          /\ assign_seq_id_to_seq(Table).seq_id = INVALID
          /\ Table' = Table]_vars

\* C13: free_pages(seq_id) returns the table it was given whenever seq_id is an
\* unused slot or lies outside [0, max_seqs).
C13_FreeInvalidIsNoOp ==
    [][\A seq_id \in FreeIds(Table) :
          (/\ call' = "free_pages"
           /\ Table' = free_pages(Table, seq_id)
           /\ (seq_id \notin DOMAIN seq_lens \/ seq_lens[seq_id] = INVALID))
              => Table' = Table]_vars

\* C14: free_pages(s) followed by free_pages(s) gives the same table as one
\* free_pages(s), for every slot s, in every reachable single-owner table and in
\* every reachable ref-counted table.
C14_FreeIdempotent ==
    \A s \in DOMAIN seq_lens :
        IF DOMAIN page_ref_counts = {}
        THEN free_pages(free_pages(Table, s), s) = free_pages(Table, s)
        ELSE rc_free_pages(rc_free_pages(RcState, s), s) = rc_free_pages(RcState, s)

\* C14 witness: free_pages of the ref-counted table has released a slot (freeing
\* it again changes nothing) while another slot is active and holds a page, so
\* that freeing it changes the rows, the lengths and the reference counts.
C14_Witness ==
    /\ call = "free_pages"
    /\ DOMAIN page_ref_counts # {}
    /\ \E s \in DOMAIN seq_lens :
          /\ is_invalid(seq_lens[s])
          /\ rc_free_pages(RcState, s) = RcState
    /\ \E s \in DOMAIN seq_lens :
          /\ is_valid(seq_lens[s])
          /\ \E i \in DOMAIN page_indices[s] : is_valid(page_indices[s][i])
          /\ rc_free_pages(RcState, s).page_ref_counts # page_ref_counts
          /\ rc_free_pages(RcState, s).page_indices # page_indices

\* the call a makes some sequence longer than max_len_per_seq
Overflows(a) ==
    \E s \in DOMAIN seq_lens :
        Result(a).table.seq_lens[s] > max_len_per_seq(Table, page_size)

\* C15: in an allocate_for_seqs call that makes a sequence longer than
\* max_len_per_seq, no token at a position >= max_len_per_seq gets a valid
\* destination, and every page the call takes from the free pool is listed in the
\* row of the sequence that took it.
C15_OverflowDetected ==
    [][\A a \in AllocCalls :
          IsAllocate(a) /\ Overflows(a) =>
              /\ \A i \in DOMAIN a.tokens :
                    (/\ a.tokens[i] >= 0
                     /\ PreLen(a.tokens[i]) + Earlier(a.tokens, i)
                            >= max_len_per_seq(Table, page_size))
                        => Result(a).batch_info.new_token_dests[i] = INVALID
              /\ \A p \in DOMAIN page_owners :
                    page_owners[p] = INVALID /\ page_owners'[p] # INVALID
                        => p \in RowPages(page_indices'[page_owners'[p]])]_vars

\* C16: the cache has exactly max_pages pages of page_size slots, and every valid
\* destination allocate_for_seqs returns from the current table addresses a slot
\* inside the cache.
C16_CacheCoversPages ==
    /\ Size(kv_pages) = max_pages(Table)
    /\ \A p \in DOMAIN kv_pages : Size(kv_pages[p]) = page_size
    /\ \A a \in AllocCalls :
          \A i \in DOMAIN a.tokens :
              LET dest == Result(a).batch_info.new_token_dests[i]
              IN  dest >= 0 => dest \div page_size < Size(kv_pages)

\* the pages owned by slot s in the table t
OwnedBy(t, s) == {p \in DOMAIN t.page_owners : t.page_owners[p] = s}

\* C17: allocate_for_seqs sets the length of every touched sequence to its old
\* length plus its count, and an unused slot given a positive count (that fits the
\* slot, with enough free pages) becomes active with length count and with
\* ceil(count / page_size) pages, in its row and owned.
C17_LengthsAndPagesOfNewSlot ==
    [][\A a \in AllocCalls :
          IsAllocate(a) =>
              \A j \in DOMAIN a.updated_seqs :
                  LET s == a.updated_seqs[j]
                      count == CountsOf(a)[j]
                  IN  s >= 0 =>
                        /\ Active(s) => seq_lens'[s] = seq_lens[s] + count
                        /\ (/\ seq_lens[s] = INVALID
                            /\ count > 0
                            /\ count <= max_len_per_seq(Table, page_size)
                            /\ Starved(Result(a)) = {})
                              => /\ seq_lens'[s] = count
                                 /\ Cardinality(ValidEntries(page_indices'[s]))
                                        = CeilDiv(count, page_size)
                                 /\ Cardinality(OwnedBy(Table', s))
                                        = CeilDiv(count, page_size)]_vars

\* C18: a slot changes from unused (length INVALID) to active only in an
\* assign_seq_id_to_seq step, never in an allocate_for_seqs or free_pages step.
C18_OnlyAssignActivates ==
    [][\A s \in DOMAIN seq_lens :
          seq_lens[s] = INVALID /\ seq_lens'[s] >= 0
              => call' = "assign_seq_id_to_seq"]_vars

\* C18 (amended): an unused slot becomes active only through assign_seq_id_to_seq
\* or through an allocate_for_seqs call that lists it in updated_seqs with a
\* positive count, and then its length is that count; free_pages never makes an
\* unused slot active.
C18_ActivationByAssignOrListedAllocate ==
    \A s \in DOMAIN seq_lens :
        seq_lens[s] = INVALID =>
            /\ \A seq_id \in FreeIds(Table) :
                  free_pages(Table, seq_id).seq_lens[s] = INVALID
            /\ \A a \in AllocCalls :
                  Result(a).table.seq_lens[s] # INVALID =>
                      \E j \in DOMAIN a.updated_seqs :
                          /\ a.updated_seqs[j] = s
                          /\ CountsOf(a)[j] > 0
                          /\ Result(a).table.seq_lens[s] = CountsOf(a)[j]

\* after an allocate_for_seqs call, with one slot in use, an unused slot that one
\* call activates and another call (listing it with no token) leaves unused
C18_Witness ==
    /\ call = "allocate_for_seqs"
    /\ \E s, u \in DOMAIN seq_lens :
          /\ seq_lens[s] = INVALID
          /\ seq_lens[u] > 0
          /\ \E a \in AllocCalls : Result(a).table.seq_lens[s] > 0
          /\ \E a \in AllocCalls :
                /\ \E j \in DOMAIN a.updated_seqs : a.updated_seqs[j] = s
                /\ Result(a).table.seq_lens[s] = INVALID

\* the slots a call lists in updated_seqs
Listed(a) == {a.updated_seqs[j] : j \in DOMAIN a.updated_seqs} \ {INVALID}

\* C19: allocate_for_seqs leaves the length and the row of every sequence it does
\* not list unchanged, and the owner of every page that was owned before the call,
\* also when it runs out of free pages.
C19_AllocateFrame ==
    [][\A a \in AllocCalls :
          IsAllocate(a) =>
              /\ \A s \in DOMAIN seq_lens \ Listed(a) :
                    /\ seq_lens'[s] = seq_lens[s]
                    /\ page_indices'[s] = page_indices[s]
              /\ \A p \in DOMAIN page_owners :
                    page_owners[p] # INVALID => page_owners'[p] = page_owners[p]]_vars

\* the table is as a caller that assigns before allocating, stays within
\* max_len_per_seq and never runs out of pages leaves it: an unused slot holds
\* nothing, an active slot lists ceil(len / page_size) pages in the first entries of
\* its row and owns exactly those
WellFormed ==
    \A s \in DOMAIN seq_lens :
        IF seq_lens[s] = INVALID
        THEN ValidEntries(page_indices[s]) = {} /\ OwnedBy(Table, s) = {}
        ELSE /\ seq_lens[s] <= max_len_per_seq(Table, page_size)
             /\ ValidEntries(page_indices[s]) = 0..(CeilDiv(seq_lens[s], page_size) - 1)
             /\ OwnedBy(Table, s) = RowPages(page_indices[s])
             /\ Cardinality(RowPages(page_indices[s])) = CeilDiv(seq_lens[s], page_size)

\* the call a extends active sequences only, within max_len_per_seq, and finds a
\* free page for every page it needs
FitsTable(a) ==
    /\ \A s \in Listed(a) : Active(s)
    /\ ~Overflows(a)
    /\ Starved(Result(a)) = {}

\* the logical position of token i of the call a
TokenPos(a, i) == PreLen(a.tokens[i]) + Earlier(a.tokens, i)

\* C20 as stated: within one call on a well-formed table, the destinations of the
\* tokens of one sequence, in input order, are strictly increasing.
C20_DestinationsIncreasing ==
    WellFormed =>
        \A a \in AllocCalls :
            FitsTable(a) =>
                \A i, j \in DOMAIN a.tokens :
                    i < j /\ a.tokens[i] >= 0 /\ a.tokens[i] = a.tokens[j] =>
                        Result(a).batch_info.new_token_dests[i]
                            < Result(a).batch_info.new_token_dests[j]

\* C20 (amended): within one call, the tokens of one sequence, in input order, sit
\* at the consecutive positions L, L+1, ...: a destination's slot inside its page is
\* its position mod page_size, two tokens whose positions share a page index have
\* destinations that differ by the difference of their positions (so they increase
\* inside a page), and tokens on different page indices land in the pages the row
\* lists for those indices, whatever the order of the page numbers.
C20_DestinationsFollowPositions ==
    \A a \in AllocCalls :
        \A i, j \in DOMAIN a.tokens :
            LET dests == Result(a).batch_info.new_token_dests
                row == Result(a).table.page_indices[a.tokens[i]]
                ki == TokenPos(a, i)
                kj == TokenPos(a, j)
            IN  (/\ i < j /\ a.tokens[i] >= 0 /\ a.tokens[i] = a.tokens[j]
                 /\ (kj \div page_size) < pages_per_seq(Table)
                 /\ dests[i] >= 0 /\ dests[j] >= 0)
                    => /\ kj - ki = Cardinality({m \in DOMAIN a.tokens :
                                        i <= m /\ m < j /\ a.tokens[m] = a.tokens[i]})
                       /\ dests[i] % page_size = ki % page_size
                       /\ dests[j] % page_size = kj % page_size
                       /\ (ki \div page_size) = (kj \div page_size)
                              => dests[j] - dests[i] = kj - ki
                       /\ (ki \div page_size) # (kj \div page_size)
                              => /\ dests[i] \div page_size = row[ki \div page_size]
                                 /\ dests[j] \div page_size = row[kj \div page_size]

\* C20 witness: after a free_pages call the table is well formed and a fitting call
\* extends a non-empty sequence by two tokens, the second of which lands in a
\* reused page with a lower number than the first one's page.
C20_Witness ==
    /\ call = "free_pages"
    /\ WellFormed
    /\ \E a \in AllocCalls :
          /\ FitsTable(a)
          /\ \E i, j \in DOMAIN a.tokens :
                /\ i < j /\ a.tokens[i] >= 0 /\ a.tokens[i] = a.tokens[j]
                /\ seq_lens[a.tokens[i]] > 0
                /\ Result(a).batch_info.new_token_dests[j] >= 0
                /\ Result(a).batch_info.new_token_dests[j]
                       < Result(a).batch_info.new_token_dests[i]

\* a batch of n tokens of sequence 0
TokensOf0(n) == [i \in 0..(n - 1) |-> 0]

\* C21: with page_size 4, 2 pages and 1 slot (2 or more pages per sequence), assign
\* followed by an allocation of 5 tokens gives length 5, pages 0 and 1 in the row in
\* that order and destinations [0, 1, 2, 3, 4]; free_pages then frees both pages
\* and makes the length INVALID.
C21_FiveTokenScenario ==
    (/\ page_size = 4
     /\ pages_per_seq(Table) >= 2
     /\ Table = init(2, 1, pages_per_seq(Table)))
        => LET assigned == assign_seq_id_to_seq(Table)
               r == allocate_for_seqs(assigned.table, page_size, Full(1, assigned.seq_id),
                                      Full(1, 5), TokensOf0(5))
               freed == free_pages(r.table, assigned.seq_id)
           IN  /\ assigned.seq_id = 0
               /\ r.table.seq_lens[0] = 5
               /\ r.table.page_indices[0][0] = 0
               /\ r.table.page_indices[0][1] = 1
               /\ \A i \in 2..(pages_per_seq(Table) - 1) :
                     r.table.page_indices[0][i] = INVALID
               /\ r.batch_info.new_token_dests = [i \in 0..4 |-> i]
               /\ \A p \in DOMAIN freed.page_owners : freed.page_owners[p] = INVALID
               /\ freed.seq_lens[0] = INVALID

\* C21 witness: the state after the 5-token allocation of the scenario, from which
\* free_pages(0) gives back the table of init
C21_Witness ==
    /\ call = "allocate_for_seqs"
    /\ page_size = 4
    /\ seq_lens = Full(1, 5)
    /\ page_owners = Full(2, 0)
    /\ pages_per_seq(Table) >= 2
    /\ page_indices[0][0] = 0 /\ page_indices[0][1] = 1
    /\ free_pages(Table, 0) = init(2, 1, pages_per_seq(Table))
    /\ C21_FiveTokenScenario

\* C22: an allocate_for_seqs call that names a sequence id outside [0, max_seqs)
\* raises no error, returns the table unchanged, and gives the tokens tagged with
\* that id the INVALID destination.
C22_OutOfRangeIdIsNoOp ==
    \A a \in OutOfRangeCalls :
        /\ ~OutOfRangeResult(a).raised
        /\ OutOfRangeResult(a).table = Table
        /\ \A i \in DOMAIN a.tokens :
              OutOfRangeResult(a).batch_info.new_token_dests[i] = INVALID

\* each sequence's tokens are next to each other in the batch
Contiguous(ids) ==
    \A i, j, k \in DOMAIN ids : i < j /\ j < k /\ ids[i] = ids[k] => ids[j] = ids[i]

\* every real tag of the batch names an active slot of the ref-counted table
TagsActive(ids) ==
    \A i \in DOMAIN ids : ids[i] >= 0 => is_valid(seq_lens[ids[i]])

\* C23: in the batch info of allocate_for_seq, cu_q_lens starts with 0, the i-th
\* difference is the number of new tokens of the i-th batch sequence, and the
\* tokens at the flattened indices cu_q_lens[i] .. cu_q_lens[i+1]-1 are exactly the
\* tokens tagged with that sequence, whenever each sequence's tokens are contiguous.
C23_CuQLensDelimitTokens ==
    \A ids \in RcAllocCalls :
        (Contiguous(ids) /\ TagsActive(ids) /\ ~RcResult(ids).raised) =>
            LET r == RcResult(ids)
                cu == r.batch_info.cu_q_lens
            IN  /\ cu[0] = 0
                /\ \A i \in DOMAIN r.updated_seqs :
                      LET s == r.updated_seqs[i]
                      IN  s \in DOMAIN seq_lens =>
                            /\ cu[i + 1] - cu[i] = CountOf(ids, s)
                            /\ {j \in DOMAIN ids : ids[j] = s} = cu[i]..(cu[i + 1] - 1)

\* the real sequence ids among the tags of a batch
RealIds(ids) == {ids[i] : i \in DOMAIN ids} \cap DOMAIN seq_lens

\* C24: in the batch info of allocate_for_seq for a batch with a real token,
\* num_seqs is the number of distinct
\* real sequence ids among the tags (padding tags add nothing), and the
\* page_indices and seq_lens entries from num_seqs on are INVALID.
C24_NumSeqsCountsRealIds ==
    \A ids \in RcAllocCalls :
        (RealIds(ids) # {} /\ TagsActive(ids) /\ ~RcResult(ids).raised) =>
            LET b == RcResult(ids).batch_info
            IN  /\ b.num_seqs = Cardinality(RealIds(ids))
                /\ \A i \in DOMAIN b.seq_lens :
                      i >= Cardinality(RealIds(ids)) =>
                          /\ b.seq_lens[i] = INVALID_RC
                          /\ \A j \in DOMAIN b.page_indices[i] :
                                b.page_indices[i][j] = INVALID_RC

\* C26: after every call, every committed position k < seq_lens[s] of every active
\* slot s is backed by a page the slot holds: the row has an entry for k, the entry
\* is a page index in [0, max_pages), and that page's owner is s.
C26_PositionsBacked ==
    \A s \in DOMAIN seq_lens :
        Active(s) =>
            \A k \in 0..(seq_lens[s] - 1) :
                /\ (k \div page_size) \in DOMAIN page_indices[s]
                /\ page_indices[s][k \div page_size] \in DOMAIN page_owners
                /\ page_owners[page_indices[s][k \div page_size]] = s

\* the pages that are free when request q of the page loop of r is served: free
\* before the call and not taken by an earlier request
FreeAt(r, q) ==
    {p \in DOMAIN page_owners : page_owners[p] = INVALID}
        \ {r.requests[j].page : j \in 1..(q - 1)}

\* the number of requests of r before request q for the same sequence
EarlierRequests(r, q) ==
    Cardinality({j \in 1..(q - 1) : r.requests[j].seq = r.requests[q].seq})

\* C27: every page allocate_for_seqs allocates is free when it is chosen and is the
\* lowest-indexed free page, and the i-th page allocated to a sequence in the call
\* is recorded in the sequence's row at index old_pages_needed + i.
C27_LowestFreePageAtNextIndex ==
    [][\A a \in AllocCalls :
          IsAllocate(a) =>
              \A q \in 1..Len(Result(a).requests) :
                  LET r == Result(a)
                      req == r.requests[q]
                      idx == CeilDiv(PreLen(req.seq), page_size) + EarlierRequests(r, q)
                  IN  /\ req.page \in FreeAt(r, q)
                      /\ \A p \in FreeAt(r, q) : req.page <= p
                      /\ idx \in DOMAIN page_indices[req.seq]
                      /\ page_indices'[req.seq][idx] = req.page]_vars

\* C28: after every call, page p has owner s if and only if p occurs in row s; a
\* page with owner INVALID occurs in no row, and no page is owned by an unused slot.
C28_OwnersAgreeWithRows ==
    \A p \in DOMAIN page_owners :
        /\ \A s \in DOMAIN seq_lens :
              page_owners[p] = s <=> p \in RowPages(page_indices[s])
        /\ page_owners[p] # INVALID =>
              page_owners[p] \in DOMAIN seq_lens /\ Active(page_owners[p])

\* the (slot, index) entries of the page lists that hold page p
EntriesOf(p) ==
    {e \in (DOMAIN page_indices) \X (DOMAIN page_indices[0]) : page_indices[e[1]][e[2]] = p}

\* C32: after every call on the ref-counted table, page_ref_counts[p] is the
\* number of page_indices entries equal to p, and it is 0 or 1.
C32_RefCountsCountEntries ==
    \A p \in DOMAIN page_ref_counts :
        /\ page_ref_counts[p] = Cardinality(EntriesOf(p))
        /\ page_ref_counts[p] \in {0, 1}

\* the pages the active sequences tagged in ids need beyond those they have
RcNeeded(ids) ==
    LET more == [s \in DOMAIN seq_lens |->
                    IF is_valid(seq_lens[s])
                    THEN PagesNeeded(seq_lens[s] + CountOf(ids, s), page_size)
                             - PagesNeeded(seq_lens[s], page_size)
                    ELSE 0]
    IN  SumUpTo(more, Size(seq_lens))

\* the pages with ref count 0
ZeroRefPages == {p \in DOMAIN page_ref_counts : page_ref_counts[p] = 0}

\* C33: allocate_for_seq fails exactly when the pages needed exceed the pages with
\* ref count 0; it never assigns a page whose count is already positive; and when
\* it does not fail every token of an active sequence has a valid destination.
C33_FailsExactlyWhenOutOfPages ==
    \A ids \in RcAllocCalls :
        LET r == RcResult(ids)
        IN  /\ r.raised <=> RcNeeded(ids) > Cardinality(ZeroRefPages)
            /\ \A s \in DOMAIN page_indices : \A j \in DOMAIN page_indices[s] :
                  r.table.page_indices[s][j] # page_indices[s][j] =>
                      r.table.page_indices[s][j] \in ZeroRefPages
            /\ ~r.raised =>
                  \A i \in DOMAIN ids :
                      ids[i] >= 0 /\ is_valid(seq_lens[ids[i]]) =>
                          is_valid(r.batch_info.new_token_dests[i])

\* the unused slots of the ref-counted table
RcUnused == {s \in DOMAIN seq_lens : seq_lens[s] = INVALID_RC}

\* C34: assign_seq_id_to_seq of the ref-counted table returns the lowest-indexed
\* unused slot whenever one exists and sets its length to 0, whatever the lengths
\* of the active slots; with no unused slot it returns INVALID and leaves seq_lens
\* unchanged.
C34_RcAssignLowestUnused ==
    LET r == rc_assign_seq_id_to_seq(RcState)
    IN  IF RcUnused # {}
        THEN /\ r.seq_id \in RcUnused
             /\ \A s \in RcUnused : r.seq_id <= s
             /\ r.table.seq_lens = [seq_lens EXCEPT ![r.seq_id] = 0]
        ELSE /\ r.seq_id = INVALID_RC
             /\ r.table.seq_lens = seq_lens

\* C34 witness: assign_seq_id_to_seq has just returned; slot 0 has length 0 again
\* while a higher slot is active with tokens, and a further call from here finds
\* no unused slot.
C34_Witness ==
    /\ call = "assign_seq_id_to_seq"
    /\ Size(seq_lens) >= 2
    /\ seq_lens[0] = 0
    /\ \E s \in DOMAIN seq_lens : s > 0 /\ is_valid(seq_lens[s]) /\ seq_lens[s] > 0
    /\ RcUnused = {}

\* the token tags of ids without the padding tokens, in their order
StripPadding(ids) ==
    LET real == {i \in DOMAIN ids : ids[i] >= 0}
        at(j) == CHOOSE i \in real : Cardinality({h \in real : h < i}) = j
    IN  [j \in 0..(Cardinality(real) - 1) |-> ids[at(j)]]

\* C35: in allocate_for_seq on a batch with tokens of active sequences, a token
\* with a negative tag gets INVALID in new_token_dests and in pos_ids, and the
\* lengths, page lists and destinations of the other tokens are those of the call
\* without it.
C35_PaddingIgnored ==
    \A ids \in RcAllocCalls :
        LET r == RcResult(ids)
            real == {i \in DOMAIN ids : ids[i] >= 0}
            s == allocate_for_seq(RcState, page_size, StripPadding(ids))
        IN  (RealIds(ids) # {} /\ TagsActive(ids) /\ ~r.raised) =>
                /\ \A i \in DOMAIN ids :
                      ids[i] < 0 =>
                          /\ r.batch_info.new_token_dests[i] = INVALID_RC
                          /\ r.batch_info.pos_ids[i] = INVALID_RC
                /\ r.table.seq_lens = s.table.seq_lens
                /\ r.table.page_indices = s.table.page_indices
                /\ \A i \in real :
                      r.batch_info.new_token_dests[i]
                          = s.batch_info.new_token_dests[Cardinality({h \in real : h < i})]

\* the number of tokens of ids before index i that carry the tag of token i
EarlierOfSameSeq(ids, i) == Cardinality({h \in DOMAIN ids : h < i /\ ids[h] = ids[i]})

\* the call keeps every active sequence within page_size * pages_per_seq
RcFits(ids) ==
    \A s \in DOMAIN seq_lens :
        is_valid(seq_lens[s]) =>
            seq_lens[s] + CountOf(ids, s) <= page_size * Size(page_indices[s])

\* C36: in a call that keeps every sequence within its row's capacity, for every
\* token tagged with an active sequence s, pos_ids is L + j (L the
\* length of s before the call, j the number of earlier tokens of s in the batch)
\* and new_token_dests is page_indices[s][pos div page_size] * page_size
\* + pos mod page_size for that position, for every ordering of the tags.
C36_PosIdsMatchDests ==
    \A ids \in RcAllocCalls :
        LET r == RcResult(ids)
        IN  (RcFits(ids) /\ ~r.raised) =>
                \A i \in DOMAIN ids :
                    ids[i] >= 0 /\ is_valid(seq_lens[ids[i]]) =>
                        LET pos == r.batch_info.pos_ids[i]
                        IN  /\ pos = seq_lens[ids[i]] + EarlierOfSameSeq(ids, i)
                            /\ (pos \div page_size) \in DOMAIN page_indices[ids[i]]
                            /\ r.batch_info.new_token_dests[i]
                                 = (r.table.page_indices[ids[i]][pos \div page_size] * page_size)
                                       + (pos % page_size)

\* C37: in sample_lm.main the prefill allocation and every do_generate allocation
\* give each token a valid destination equal to the position id passed to the
\* model for it (0 .. len(prompt)-1 for the prompt, len(generated) at a decode
\* step), and the sequence never needs a second page.  The prefill allocation is
\* also judged when the model.decode that follows it raises.
C37_SampleDestsArePositions ==
    call \in {"prefill", "prefill raised", "do_generate"} =>
        /\ DOMAIN sample.dests = DOMAIN sample.pos_ids
        /\ \A i \in DOMAIN sample.dests :
              /\ sample.dests[i] >= 0
              /\ sample.dests[i] < page_size * Size(page_owners)
              /\ sample.dests[i] = sample.pos_ids[i]
        /\ call \in {"prefill", "prefill raised"} =>
              /\ Size(sample.pos_ids) = sample.prompt_len
              /\ \A i \in DOMAIN sample.pos_ids : sample.pos_ids[i] = i
        /\ call = "do_generate" => sample.pos_ids[0] = sample.generated - 1
        /\ seq_lens[sample.seq_id] =
              IF call = "prefill raised" THEN sample.prompt_len ELSE sample.generated
        /\ PagesNeeded(seq_lens[sample.seq_id], page_size) <= 1
        /\ page_owners[page_indices[sample.seq_id][0]] = sample.seq_id

\* C37 witness: the last of several do_generate calls has returned for a prompt of
\* several tokens, and the page is full.
C37_Witness ==
    /\ call = "do_generate"
    /\ sample.prompt_len >= 2
    /\ sample.max_new_tokens >= 2
    /\ sample.generated = sample.prompt_len + sample.max_new_tokens
    /\ seq_lens[sample.seq_id] = page_size
    /\ sample.dests[0] = page_size - 1

----------------------------------------------------------------------------
\* Properties of the cache

\* the tokens of a batch whose destination is the slot (p, sl)
Writers(dests, ps, p, sl) ==
    {i \in DOMAIN dests : dests[i] >= 0 /\ (dests[i] \div ps) = p /\ (dests[i] % ps) = sl}

\* C7: update_kv_cache keeps batch_info and changes the cache only at the slots
\* (d div page_size, d mod page_size) of tokens with a valid destination d, whose
\* key half receives the token's key and whose value half its value; a token with
\* the INVALID destination changes no slot.
C7_UpdateFrame ==
    \A a \in AllocCalls : \A state \in KvUpdates(a) :
        LET binfo == Result(a).batch_info
            dests == binfo.new_token_dests
        IN  /\ state.batch_info = binfo
            /\ DOMAIN state.kv_pages = DOMAIN kv_pages
            /\ \A p \in DOMAIN kv_pages :
                  /\ DOMAIN state.kv_pages[p] = DOMAIN kv_pages[p]
                  /\ \A sl \in DOMAIN kv_pages[p] :
                        LET W == Writers(dests, page_size, p, sl)
                        IN  IF W = {}
                            THEN state.kv_pages[p][sl] = kv_pages[p][sl]
                            ELSE /\ \E i \in W : state.kv_pages[p][sl].k = SeqK(a.tokens)[i]
                                 /\ \E i \in W : state.kv_pages[p][sl].v = SeqV(a.tokens)[i]

\* C7 witness: a decode step has written a slot, left another slot of the cache
\* as it was, and the next batch can hold a padding token beside a real one.
C7_Witness ==
    /\ call = "paged_decode"
    /\ \E p \in DOMAIN kv_pages : \E sl \in DOMAIN kv_pages[p] :
          kv_pages[p][sl].k[1] = "k" /\ kv_pages[p][sl].v[1] = "v"
    /\ \E p \in DOMAIN kv_pages : \E sl \in DOMAIN kv_pages[p] : kv_pages[p][sl] = ZeroSlot
    /\ \E a \in AllocCalls :
          LET dests == Result(a).batch_info.new_token_dests
          IN  \E i, j \in DOMAIN dests : dests[i] = INVALID /\ dests[j] >= 0

\* C8: after update_kv_cache every token with a valid destination is read back at
\* (dest div page_size, dest mod page_size), and no two tokens of the batch share a
\* destination.
C8_RoundTrip ==
    [][\A a \in AllocCalls : \A state \in KvUpdates(a) :
          call' = "paged_decode" /\ Table' = Result(a).table /\ kv_pages' = state.kv_pages =>
              LET dests == Result(a).batch_info.new_token_dests
              IN  /\ \A i \in DOMAIN dests :
                        dests[i] >= 0 =>
                            /\ (dests[i] \div page_size) \in DOMAIN kv_pages'
                            /\ kv_pages'[dests[i] \div page_size][dests[i] % page_size]
                                  = [k |-> SeqK(a.tokens)[i], v |-> SeqV(a.tokens)[i]]
                  /\ \A i, j \in DOMAIN dests :
                        dests[i] >= 0 /\ dests[i] = dests[j] => i = j]_vars

----------------------------------------------------------------------------
\* the positions of slot s that are backed by a cache slot in the current state
BackedPositions(s) ==
    {k \in 0..(seq_lens[s] - 1) :
        /\ (k \div page_size) \in DOMAIN page_indices[s]
        /\ page_indices[s][k \div page_size] \in DOMAIN kv_pages}

\* C29: across decode steps, assignments and free_pages calls, as long as an
\* active sequence s is not itself freed, every position k it holds keeps its page
\* index and the key/value stored at (page_indices[s][k div page_size],
\* k mod page_size).
C29_WrittenStaysReadable ==
    [][\A s \in DOMAIN seq_lens :
          Active(s) /\ seq_lens'[s] >= seq_lens[s] =>
              \A k \in BackedPositions(s) :
                  LET p == page_indices[s][k \div page_size]
                  IN  /\ page_indices'[s][k \div page_size] = p
                      /\ kv_pages'[p][k % page_size] = kv_pages[p][k % page_size]]_vars

----------------------------------------------------------------------------
\* Properties of the attention kernel

\* the query rows of sequence i of the batch
QueryRows(i) == attn_batch.cu_q_lens[i]..(attn_batch.cu_q_lens[i + 1] - 1)

\* the position in sequence i of the query at row t
QueryPos(i, t) ==
    attn_batch.seq_lens[i] - (attn_batch.cu_q_lens[i + 1] - attn_batch.cu_q_lens[i])
        + (t - attn_batch.cu_q_lens[i])

\* the (page, slot) cache cell a key or value symbol names
CellOf(sym) == <<sym[2], sym[3]>>

\* C9: for every sequence i < num_seqs and every query token of i, every entry
\* that contributes to the token's output row has a position label k with
\* k < kv_lens[i] and k <= the query's own position, and its key and its value
\* come from a slot of a page in sequence i's page list.
C9_MaskAdmits ==
    call = "ragged_paged_attention" =>
        \A i \in 0..(attn_batch.num_seqs - 1) : \A t \in QueryRows(i) :
            \A n \in 1..Len(attn_out[t].att) :
                LET c == attn_out[t].att[n]
                IN  /\ c.kv_tok >= 0
                    /\ c.kv_tok < attn_batch.seq_lens[i]
                    /\ c.kv_tok <= QueryPos(i, t)
                    /\ CellOf(c.k)[1] \in RowPages(attn_batch.page_indices[i])
                    /\ CellOf(c.v)[1] \in RowPages(attn_batch.page_indices[i])

\* C9 witness: the kernel has run on two sequences; a query of the second one
\* that is not the last position of its sequence has a non-empty output row.
C9_Witness ==
    /\ call = "ragged_paged_attention"
    /\ attn_batch.num_seqs = 2
    /\ \E t \in QueryRows(1) :
          /\ attn_out[t].att # <<>>
          /\ QueryPos(1, t) + 1 < attn_batch.seq_lens[1]

\* the cache with the slots in D holding other keys and values
Perturb(kvp, D) ==
    [p \in DOMAIN kvp |-> [sl \in DOMAIN kvp[p] |->
        IF <<p, sl>> \in D THEN [k |-> <<"k2", p, sl>>, v |-> <<"v2", p, sl>>]
        ELSE kvp[p][sl]]]

\* the slots of sequence i's pages that hold positions > p
LaterSlots(i, p) ==
    {<<attn_batch.page_indices[i][k \div page_size], k % page_size>> :
        k \in {k2 \in (p + 1)..((page_size * Size(attn_batch.page_indices[i])) - 1) :
                  attn_batch.page_indices[i][k2 \div page_size] # INVALID}}

\* the perturbations of the slots after position p: all of them, or any one
Perturbations(i, p) == {LaterSlots(i, p)} \cup {{c} : c \in LaterSlots(i, p)}

\* C10: for every sequence of the batch and every query of it at position p, a
\* run on a cache that differs only in slots holding positions > p of that
\* sequence gives the same output row for that query, for every q_len.
C10_CausalNonInterference ==
    call = "ragged_paged_attention" =>
        \A i \in 0..(attn_batch.num_seqs - 1) : \A t \in QueryRows(i) :
            \A D \in Perturbations(i, QueryPos(i, t)) :
                default_ragged_paged_attention(Perturb(kv_pages, D), attn_batch)[t] = attn_out[t]

\* C10 witness: the kernel has run on a sequence whose queries span two query
\* blocks; a query of the first block has later positions in the cache and a
\* non-empty output row.
C10_Witness ==
    /\ call = "ragged_paged_attention"
    /\ \E i \in 0..(attn_batch.num_seqs - 1) :
          /\ attn_batch.cu_q_lens[i + 1] - attn_batch.cu_q_lens[i] > QBlockSize
          /\ \E t \in QueryRows(i) :
                /\ t - attn_batch.cu_q_lens[i] < QBlockSize
                /\ LaterSlots(i, QueryPos(i, t)) # {}
                /\ attn_out[t].att # <<>>


\* the rows of the batch that lie in no sequence's query range
PaddingRows ==
    {t \in DOMAIN attn_out :
        ~\E i \in 0..(attn_batch.num_seqs - 1) : t \in QueryRows(i)}

\* C25: the output row of every flattened token index outside every sequence's
\* query range is zero.
C25_PaddingRowsZero ==
    call = "ragged_paged_attention" =>
        \A t \in PaddingRows : attn_out[t] = ZeroRow

\* C30: for every sequence i and every query token of i, an entry that
\* contributes to the output with position label k carries the key and the value
\* stored in cache slot (page_indices[i][k div page_size], k mod page_size), also
\* when pages_per_seq is not a multiple of KV_BS.
C30_BlockReadsOwnSlots ==
    call = "ragged_paged_attention" =>
        \A i \in 0..(attn_batch.num_seqs - 1) : \A t \in QueryRows(i) :
            \A n \in 1..Len(attn_out[t].att) :
                LET c == attn_out[t].att[n]
                    cell == <<attn_batch.page_indices[i][c.kv_tok \div page_size],
                              c.kv_tok % page_size>>
                IN  CellOf(c.k) = cell /\ CellOf(c.v) = cell

\* the output row computed for row t while sequence i alone is processed, on an
\* output that holds nothing yet
OwnRow(i, t) ==
    compute_attention_for_seq(kv_pages, attn_batch,
                              ZeroOutput(Size(attn_batch.new_token_dests)), i)[t]

\* the rows the query blocks of sequence i write
WrittenRows(i) ==
    LET T     == Size(attn_batch.new_token_dests)
        q_len == attn_batch.cu_q_lens[i + 1] - attn_batch.cu_q_lens[i]
        num_q_blocks == (q_len + Q_BS(T) - 1) \div Q_BS(T)
    IN  attn_batch.cu_q_lens[i]..(attn_batch.cu_q_lens[i] + (num_q_blocks * Q_BS(T)) - 1)

\* C31: the final output row of every real query token is the row computed for it
\* while its own sequence was processed: no block of another sequence overwrites
\* it afterwards and nothing an earlier block left in the row is mixed into it.
C31_OwnRowSurvives ==
    call = "ragged_paged_attention" =>
        \A i \in 0..(attn_batch.num_seqs - 1) : \A t \in QueryRows(i) :
            /\ attn_out[t] = OwnRow(i, t)
            /\ attn_out[t].q = t
            /\ attn_out[t].scaled = 0

\* C31 witness: the kernel has run on two sequences; the query blocks of the first
\* write rows inside the second one's query range, also from a second query block,
\* and the rows of the second sequence hold its own non-empty output.
C31_Witness ==
    /\ call = "ragged_paged_attention"
    /\ attn_batch.num_seqs = 2
    /\ attn_batch.cu_q_lens[1] - attn_batch.cu_q_lens[0] > QBlockSize
    /\ \E t \in QueryRows(1) :
          /\ t \in WrittenRows(0)
          /\ OwnRow(0, t) # ZeroRow
          /\ attn_out[t].att # <<>>
          /\ attn_out[t] # OwnRow(0, t)

----------------------------------------------------------------------------
\* Properties of append_to_kv_cache

\* C38: for every input whose new_lengths are all 0 or 1, also on rows that are
\* full, specialized_path and general_path return the same key and value caches:
\* the new entry is at position lengths[b] of the rows with new_length 1, every
\* other position is unchanged, and updated_lengths = lengths + new_lengths.
C38_PathsAgree ==
    call \in {"KvCache.init", "append_to_kv_cache", "extend_one_position",
              "extend_one_position raised"} =>
        \A x \in AppendInputs :
            (\A b \in DOMAIN x.new_lengths : x.new_lengths[b] \in {0, 1}) =>
                LET k == kv_cache.keys
                    v == kv_cache.values
                    l == kv_cache.lengths
                    s == specialized_path(k, v, l, x.new_keys, x.new_values, x.new_lengths)
                    g == general_path(k, v, l, x.new_keys, x.new_values, x.new_lengths)
                    r == AppendResult(x)
                IN  /\ s = g
                    /\ r.keys = s.k /\ r.values = s.v
                    /\ \A b \in DOMAIN k : \A p \in DOMAIN k[b] :
                          IF x.new_lengths[b] = 1 /\ p = l[b]
                          THEN r.keys[b][p] = x.new_keys[b][0]
                               /\ r.values[b][p] = x.new_values[b][0]
                          ELSE r.keys[b][p] = k[b][p] /\ r.values[b][p] = v[b][p]
                    /\ r.lengths = [b \in DOMAIN l |-> l[b] + x.new_lengths[b]]

\* C38 witness: append_to_kv_cache has returned; one row was full and got a new
\* token all the same, its last position still holds the key of an earlier call,
\* and another row holds a key of the last call.
C38_Witness ==
    /\ call = "append_to_kv_cache"
    /\ \E b \in DOMAIN kv_cache.lengths :
          /\ kv_cache.lengths[b] = Size(kv_cache.keys[b]) + 1
          /\ kv_cache.keys[b][Size(kv_cache.keys[b]) - 1][0][1] = "k"
          /\ kv_cache.keys[b][Size(kv_cache.keys[b]) - 1][0][2] < kv_cache.calls - 1
    /\ \E b \in DOMAIN kv_cache.lengths : \E p \in DOMAIN kv_cache.keys[b] :
          kv_cache.keys[b][p] = NewVecs("k", kv_cache.calls - 1, Size(kv_cache.lengths), 1,
                                        Size(kv_cache.keys[b][p]))[b][0]
====
